---- MODULE Spec2Model ----
(***************************************************************************)
(* A model of the page allocator of embedb: BitmapPage (io/bitmap/mod.rs), *)
(* written over a page store that keeps whole pages.  Page ids and indices *)
(* are the unsigned integers of the source; the bitmap payload is a byte   *)
(* array, searched and updated bit by bit as the source does.              *)
(***************************************************************************)
EXTENDS Integers, Sequences, FiniteSets, TLC

(***************************************************************************)
(* Sizes.  The source has PAGE_SIZE = 4096, so a bitmap manages 32640      *)
(* pages; the model keeps the 16 byte header and scales the payload down   *)
(* to PayloadBytes bytes.                                                  *)
(***************************************************************************)
PayloadBytes == 2

BITMAP_HEADER_SIZE == 16

PAGE_SIZE == BITMAP_HEADER_SIZE + PayloadBytes

BITMAP_PAGE_COUNT == (PAGE_SIZE - BITMAP_HEADER_SIZE) * 8

\* The u16 sentinel "no free index" (0xFFFF).
NO_IDX == 65535

U16 == 65536

\* Option::None of the source, for results that are a u16 or a u32.
None == 0 - 1

PageTypeBitmap == 1

PageTypeIndex == 2

\* INDEX_BITMAP_COUNT, the bitmaps one IndexPage has slots for: 510 in the
\* source, scaled down.
IndexSlots == 3

\* Calls of load and load_into in one run of the model.
MaxLoads == 2

\* Calls of IndexPage::allocate, IndexPage::persist, IndexPage::load and
\* IndexPage::free in one run of the model.
MaxIndexAllocs == 4

MaxIndexPersists == 2

MaxIndexLoads == 2

MaxIndexFrees == 1

\* The first managed page id handed to BitmapPage::new.
NewFirst == 2

\* The first managed page ids a program hands to BitmapPage::new when it
\* starts a bitmap anywhere in the file: 0 .. MaxNewFirst.
MaxNewFirst == 40

\* The PageStore of io/store.rs, byte by byte: max_size is StoreMaxPages
\* pages (40 in the tests of the source), a usize holds the numbers below
\* UsizePages * PAGE_SIZE (2^64 in the source, a multiple of the page size
\* there too), and the program makes up to MaxStoreCalls calls on the store.
StoreMaxPages == 3

UsizePages == 7

MaxStoreCalls == 3

\* The length of the short buffer [1, 2, 3, 4, 5] the tests write with
\* write_page_range.
RangeBufLen == 5

\* The page ids the store can hold: 0 .. MaxPageId.
MaxPageId == NewFirst + IndexSlots * BITMAP_PAGE_COUNT + 1

PageIds == 0..MaxPageId

SetMin(S) == CHOOSE x \in S : \A y \in S : x <= y

(***************************************************************************)
(* Filters.  A filter of the source is a predicate on page ids, true for   *)
(* "may be handed out"; the model writes it as the set of page ids it      *)
(* rejects.                                                                *)
(***************************************************************************)
Unfiltered == {}

RejectAll == PageIds

RejectThree == {3}

Filters == {Unfiltered, RejectAll, RejectThree}

Accepts(f, page_id) == page_id \notin f

\* let mut filter = |x: u16| f(first_managed_page_id + x as u32): the indices
\* the filter rejects.
IndexFilter(first, f) == {x \in 0..(BITMAP_PAGE_COUNT - 1) : ~Accepts(f, first + x)}

(***************************************************************************)
(* trait Bitmap for [u8]: the payload is a function from 0..len-1 to bytes.*)
(***************************************************************************)
ZeroBitmap == [b \in 0..(PayloadBytes - 1) |-> 0]

BitOf(byte, bit) == (byte \div (2 ^ bit)) % 2

IsClear(bitmap, index) == BitOf(bitmap[index \div 8], index % 8) = 0

\* One byte of the search: the first clear bit from..7 of the byte that the
\* filter accepts; a byte equal to 0xFF is skipped without looking at bits.
ScanByte(byte, byte_index, from, rejected) ==
    LET hits == {bit \in from..7 :
                    BitOf(byte, bit) = 0 /\ (byte_index * 8 + bit) \notin rejected}
    IN  IF byte # 255 /\ hits # {} THEN byte_index * 8 + SetMin(hits) ELSE None

RECURSIVE ScanBytes(_, _, _)
ScanBytes(bitmap, byte_index, rejected) ==
    IF byte_index >= PayloadBytes THEN None
    ELSE LET r == ScanByte(bitmap[byte_index], byte_index, 0, rejected)
         IN  IF r # None THEN r ELSE ScanBytes(bitmap, byte_index + 1, rejected)

\* The search without its filter: every clear bit is a candidate.
find_clear_unfiltered(bitmap, offset, rejected) ==
    LET byte_start_index == offset \div 8
    IN  IF byte_start_index >= PayloadBytes THEN None
        ELSE LET r == ScanByte(bitmap[byte_start_index], byte_start_index,
                               offset % 8, {})
             IN  IF r # None THEN r
                 ELSE ScanBytes(bitmap, byte_start_index + 1, {})

find_clear_filtered(bitmap, offset, rejected) ==
    LET byte_start_index == offset \div 8
    IN  IF byte_start_index >= PayloadBytes THEN None
        ELSE LET r == ScanByte(bitmap[byte_start_index], byte_start_index,
                               offset % 8, rejected)
             IN  IF r # None THEN r
                 ELSE ScanBytes(bitmap, byte_start_index + 1, rejected)

\* The u16 the source gets from find_clear_filtered(..).unwrap_or(0xFFFF).
UnwrapOrNoIdx(r) == IF r = None THEN NO_IDX ELSE r

\* Bitmap::set and Bitmap::clear index the slice: an index beyond the payload
\* panics.
InPayload(index) == (index \div 8) < PayloadBytes

BitmapSet(bitmap, index) ==
    IF IsClear(bitmap, index)
    THEN [bitmap EXCEPT ![index \div 8] = @ + 2 ^ (index % 8)]
    ELSE bitmap

BitmapClear(bitmap, index) ==
    IF IsClear(bitmap, index)
    THEN bitmap
    ELSE [bitmap EXCEPT ![index \div 8] = @ - 2 ^ (index % 8)]

(***************************************************************************)
(* BitmapPage.                                                             *)
(***************************************************************************)
page_for(bm, index) == bm.first_managed_page_id + index

contains(bm, page_id) ==
    page_id >= bm.first_managed_page_id /\ page_id <= bm.last_managed_page_id

\* mark_used that leaves the cursor on the index it has just set.
mark_used_keeping_cursor(bm, page_id, rejected) ==
    LET offset  == page_id - bm.first_managed_page_id
        changed == IsClear(bm.bitmap, offset)
        b1 == [bm EXCEPT !.bitmap = BitmapSet(bm.bitmap, offset),
                         !.free_page_count = (@ - 1) % U16]
        b3 == IF page_id = page_for(b1, b1.first_free_page_idx)
              THEN [b1 EXCEPT !.first_free_page_idx =
                       UnwrapOrNoIdx(find_clear_filtered(b1.bitmap,
                           b1.first_free_page_idx + 1, {}))]
              ELSE b1
    IN  IF changed THEN b3 ELSE bm

\* mark_used that moves first_free_page_idx on with the caller's filter.
mark_used_filtering_floor(bm, page_id, rejected) ==
    LET offset  == page_id - bm.first_managed_page_id
        changed == IsClear(bm.bitmap, offset)
        b1 == [bm EXCEPT !.bitmap = BitmapSet(bm.bitmap, offset),
                         !.free_page_count = (@ - 1) % U16]
        b2 == IF page_id = page_for(b1, b1.current_first_free_page_idx)
              THEN [b1 EXCEPT !.current_first_free_page_idx =
                       UnwrapOrNoIdx(find_clear_filtered(b1.bitmap,
                           b1.current_first_free_page_idx + 1, rejected))]
              ELSE b1
        b3 == IF page_id = page_for(b2, b2.first_free_page_idx)
              THEN [b2 EXCEPT !.first_free_page_idx =
                       UnwrapOrNoIdx(find_clear_filtered(b2.bitmap,
                           b2.first_free_page_idx + 1, rejected))]
              ELSE b2
    IN  IF changed THEN b3 ELSE bm

\* mark_used(page_id, f): every caller passes a page id of the payload.
mark_used(bm, page_id, rejected) ==
    LET offset  == page_id - bm.first_managed_page_id
        changed == IsClear(bm.bitmap, offset)
        b1 == [bm EXCEPT !.bitmap = BitmapSet(bm.bitmap, offset),
                         !.free_page_count = (@ - 1) % U16]
        b2 == IF page_id = page_for(b1, b1.current_first_free_page_idx)
              THEN [b1 EXCEPT !.current_first_free_page_idx =
                       UnwrapOrNoIdx(find_clear_filtered(b1.bitmap,
                           b1.current_first_free_page_idx + 1, rejected))]
              ELSE b1
        b3 == IF page_id = page_for(b2, b2.first_free_page_idx)
              THEN [b2 EXCEPT !.first_free_page_idx =
                       UnwrapOrNoIdx(find_clear_filtered(b2.bitmap,
                           b2.first_free_page_idx + 1, {}))]
              ELSE b2
    IN  IF changed THEN b3 ELSE bm

\* mark_free that also takes the cursor back to the freed index.
mark_free_rewinding(bm, page_id) ==
    LET offset == page_id - bm.first_managed_page_id
        b1 == [bm EXCEPT !.bitmap = BitmapClear(bm.bitmap, offset),
                         !.free_page_count = (@ + 1) % U16]
        b2 == IF page_id < page_for(b1, b1.first_free_page_idx)
              THEN [b1 EXCEPT !.first_free_page_idx = offset % U16]
              ELSE b1
        b3 == IF page_id < page_for(b2, b2.current_first_free_page_idx)
              THEN [b2 EXCEPT !.current_first_free_page_idx = offset % U16]
              ELSE b2
    IN  IF IsClear(bm.bitmap, offset) THEN bm ELSE b3

\* mark_free that counts a page as freed whether or not its bit was set.
mark_free_counting(bm, page_id) ==
    LET offset == page_id - bm.first_managed_page_id
        b1 == [bm EXCEPT !.bitmap = BitmapClear(bm.bitmap, offset),
                         !.free_page_count = (@ + 1) % U16]
    IN  IF page_id < page_for(b1, b1.first_free_page_idx)
        THEN [b1 EXCEPT !.first_free_page_idx = offset % U16]
        ELSE b1

mark_free(bm, page_id) ==
    LET offset == page_id - bm.first_managed_page_id
        b1 == [bm EXCEPT !.bitmap = BitmapClear(bm.bitmap, offset),
                         !.free_page_count = (@ + 1) % U16]
        b2 == IF page_id < page_for(b1, b1.first_free_page_idx)
              THEN [b1 EXCEPT !.first_free_page_idx = offset % U16]
              ELSE b1
    IN  IF IsClear(bm.bitmap, offset) THEN bm ELSE b2

\* free(page_id): [bm, ret, panic].  mark_free indexes the payload with the
\* offset, so an offset beyond the payload aborts the program.
free(bm, page_id) ==
    IF ~contains(bm, page_id)
    THEN [bm |-> bm, ret |-> FALSE, panic |-> FALSE]
    ELSE IF ~InPayload(page_id - bm.first_managed_page_id)
         THEN [bm |-> bm, ret |-> FALSE, panic |-> TRUE]
         ELSE [bm |-> mark_free(bm, page_id), ret |-> TRUE, panic |-> FALSE]

\* new that does not mark the page of the bitmap itself.
new_unmarked(first_managed_page_id) ==
    [page_id                     |-> first_managed_page_id,
     first_managed_page_id       |-> first_managed_page_id,
     last_managed_page_id        |-> first_managed_page_id + BITMAP_PAGE_COUNT - 1,
     current_first_free_page_idx |-> 0,
     first_free_page_idx         |-> 0,
     free_page_count             |-> BITMAP_PAGE_COUNT,
     bitmap                      |-> ZeroBitmap]

new(first_managed_page_id) ==
    mark_used([page_id                     |-> first_managed_page_id,
               first_managed_page_id       |-> first_managed_page_id,
               last_managed_page_id        |-> first_managed_page_id + BITMAP_PAGE_COUNT - 1,
               current_first_free_page_idx |-> 0,
               first_free_page_idx         |-> 0,
               free_page_count             |-> BITMAP_PAGE_COUNT,
               bitmap                      |-> ZeroBitmap],
              first_managed_page_id, {})

\* allocate that searches from first_free_page_idx again once the cursor is
\* 0xFFFF.
allocate_from_floor(bm, f) ==
    LET rejected == IndexFilter(bm.first_managed_page_id, f)
        from == IF bm.current_first_free_page_idx = NO_IDX
                THEN bm.first_free_page_idx ELSE bm.current_first_free_page_idx
        found == find_clear_filtered(bm.bitmap, from, rejected)
        b1 == [bm EXCEPT !.current_first_free_page_idx = UnwrapOrNoIdx(found)]
    IN  IF found = None
        THEN [bm |-> b1, ret |-> None]
        ELSE [bm |-> mark_used(b1, bm.first_managed_page_id + found, rejected),
              ret |-> bm.first_managed_page_id + found]

\* allocate(f): [bm, ret], ret a page id or None.
allocate(bm, f) ==
    LET rejected == IndexFilter(bm.first_managed_page_id, f)
        found == find_clear_filtered(bm.bitmap, bm.current_first_free_page_idx, rejected)
        b1 == [bm EXCEPT !.current_first_free_page_idx = UnwrapOrNoIdx(found)]
    IN  IF found = None
        THEN [bm |-> b1, ret |-> None]
        ELSE [bm |-> mark_used(b1, bm.first_managed_page_id + found, rejected),
              ret |-> bm.first_managed_page_id + found]


(***************************************************************************)
(* Pages on disk.  A page is its 16 header bytes and its payload bytes;    *)
(* integers are stored little-endian (put_u16, put_u32) and read back with *)
(* get_u16, get_u32.  Every u32 of the model is a page id far below 2^31,  *)
(* so the four bytes of put_u32 hold it without wrapping.                  *)
(***************************************************************************)
ZeroHeader == [i \in 0..(BITMAP_HEADER_SIZE - 1) |-> 0]

ZeroPage == [header |-> ZeroHeader, body |-> ZeroBitmap]

put_u16(buffer, idx, value) ==
    [i \in DOMAIN buffer |->
        IF i \in idx..(idx + 1) THEN ((value % U16) \div (256 ^ (i - idx))) % 256
        ELSE buffer[i]]

put_u32(buffer, idx, value) ==
    [i \in DOMAIN buffer |->
        IF i \in idx..(idx + 3) THEN (value \div (256 ^ (i - idx))) % 256
        ELSE buffer[i]]

get_u16(buffer, idx) == buffer[idx] + 256 * buffer[idx + 1]

get_u32(buffer, idx) ==
    buffer[idx] + 256 * buffer[idx + 1] + 65536 * buffer[idx + 2]
        + 16777216 * buffer[idx + 3]

\* update_header that leaves bytes 0..3 of the page as they were.
update_header_without_id(bm) ==
    put_u16(put_u16(put_u32(put_u32(ZeroHeader,
        4, PageTypeBitmap), 8, bm.first_managed_page_id),
        12, bm.free_page_count), 14, bm.first_free_page_idx)

\* BitmapPage::update_header
update_header(bm) ==
    put_u16(put_u16(put_u32(put_u32(put_u32(ZeroHeader,
        0, bm.page_id), 4, PageTypeBitmap), 8, bm.first_managed_page_id),
        12, bm.free_page_count), 14, bm.first_free_page_idx)

\* The page BitmapPage::persist hands to PageStore::write_page.
PersistedPage(bm) == [header |-> update_header(bm), body |-> bm.bitmap]

(***************************************************************************)
(* PageStore, page by page: disk[i + 1] is the page with id i and          *)
(* Len(disk) * PAGE_SIZE is current_size.  max_size is (MaxPageId + 1)     *)
(* pages.                                                                  *)
(***************************************************************************)
CanRead(d, id) == id + 1 <= Len(d)

read_page(d, id) == d[id + 1]

CanWrite(d, id) == id <= MaxPageId

\* The same test of ensure_page_exists_at on a store whose max_size is
\* max_pages pages.
HasRoom(max_pages, id) == id + 1 <= max_pages

\* write_page: ensure_page_exists_at grows the file with zero pages up to
\* and including the page written.
write_page(d, id, page) ==
    [i \in 1..(IF id + 1 > Len(d) THEN id + 1 ELSE Len(d)) |->
        IF i = id + 1 THEN page ELSE IF i <= Len(d) THEN d[i] ELSE ZeroPage]

(***************************************************************************)
(* BitmapPage::load and BitmapPage::load_into: [bm, some, panic].          *)
(***************************************************************************)
\* load that asks for one free index only: without a second one the cursor
\* is 0xFFFF.
load_without_next(page, f) ==
    LET first_managed_page_id == get_u32(page.header, 8)
        first_free_page_idx == get_u16(page.header, 14)
        rejected == IndexFilter(first_managed_page_id, f)
        current_idx == find_clear_filtered(page.body, first_free_page_idx, rejected)
        next_idx == IF current_idx = None THEN None
                    ELSE find_clear_filtered(page.body, current_idx + 1, rejected)
        page_id == first_managed_page_id + current_idx
        index == [page_id                     |-> page_id,
                  first_managed_page_id       |-> first_managed_page_id,
                  last_managed_page_id        |-> first_managed_page_id + BITMAP_PAGE_COUNT,
                  current_first_free_page_idx |-> UnwrapOrNoIdx(next_idx),
                  first_free_page_idx         |-> first_free_page_idx,
                  free_page_count             |-> get_u16(page.header, 12),
                  bitmap                      |-> page.body]
        freed == free(mark_used(index, page_id, rejected), get_u32(page.header, 0))
    IN  IF current_idx = None
        THEN [bm |-> index, some |-> FALSE, panic |-> FALSE]
        ELSE [bm |-> freed.bm, some |-> ~freed.panic, panic |-> freed.panic]

load(page, f) ==
    LET first_managed_page_id == get_u32(page.header, 8)
        free_page_count == get_u16(page.header, 12)
        first_free_page_idx == get_u16(page.header, 14)
        rejected == IndexFilter(first_managed_page_id, f)
        current_idx == find_clear_filtered(page.body, first_free_page_idx, rejected)
        next_idx == IF current_idx = None THEN None
                    ELSE find_clear_filtered(page.body, current_idx + 1, rejected)
        page_id == first_managed_page_id + current_idx
        index == [page_id                     |-> page_id,
                  first_managed_page_id       |-> first_managed_page_id,
                  last_managed_page_id        |-> first_managed_page_id + BITMAP_PAGE_COUNT,
                  current_first_free_page_idx |-> next_idx,
                  first_free_page_idx         |-> first_free_page_idx,
                  free_page_count             |-> free_page_count,
                  bitmap                      |-> page.body]
        freed == free(mark_used(index, page_id, rejected), get_u32(page.header, 0))
    IN  IF current_idx = None \/ next_idx = None
        THEN [bm |-> index, some |-> FALSE, panic |-> FALSE]
        ELSE [bm |-> freed.bm, some |-> ~freed.panic, panic |-> freed.panic]

\* load_into that leaves the bit of the page the view came from as it is.
load_into_keeping_old(page, page_id) ==
    [bm |-> [page_id                     |-> page_id,
             first_managed_page_id       |-> get_u32(page.header, 8),
             last_managed_page_id        |-> get_u32(page.header, 8) + BITMAP_PAGE_COUNT - 1,
             current_first_free_page_idx |-> get_u16(page.header, 14),
             first_free_page_idx         |-> get_u16(page.header, 14),
             free_page_count             |-> get_u16(page.header, 12),
             bitmap                      |-> page.body],
     some |-> TRUE, panic |-> FALSE]

\* load_into that marks the page it is loaded into as used, as load does.
load_into_marking_target(page, page_id) ==
    LET first_managed_page_id == get_u32(page.header, 8)
        index == [page_id                     |-> page_id,
                  first_managed_page_id       |-> first_managed_page_id,
                  last_managed_page_id        |-> first_managed_page_id + BITMAP_PAGE_COUNT - 1,
                  current_first_free_page_idx |-> get_u16(page.header, 14),
                  first_free_page_idx         |-> get_u16(page.header, 14),
                  free_page_count             |-> get_u16(page.header, 12),
                  bitmap                      |-> page.body]
        freed == free(index, get_u32(page.header, 0))
    IN  [bm |-> IF contains(freed.bm, page_id)
                THEN mark_used(freed.bm, page_id, {}) ELSE freed.bm,
         some |-> ~freed.panic, panic |-> freed.panic]

load_into(page, page_id) ==
    LET first_managed_page_id == get_u32(page.header, 8)
        index == [page_id                     |-> page_id,
                  first_managed_page_id       |-> first_managed_page_id,
                  last_managed_page_id        |-> first_managed_page_id + BITMAP_PAGE_COUNT - 1,
                  current_first_free_page_idx |-> get_u16(page.header, 14),
                  first_free_page_idx         |-> get_u16(page.header, 14),
                  free_page_count             |-> get_u16(page.header, 12),
                  bitmap                      |-> page.body]
        freed == free(index, get_u32(page.header, 0))
    IN  [bm |-> freed.bm, some |-> ~freed.panic, panic |-> freed.panic]


(***************************************************************************)
(* IndexPage (io/index.rs).  The record keeps the fields of the struct;    *)
(* slots is the content of the buffer after the header, one entry of       *)
(* (page id, free page count) per bitmap; dirty is the dirty_bitmaps map,  *)
(* a function from the loaded slot numbers to BitmapPage records; panic    *)
(* says that a call on the IndexPage has aborted the program (an unwrap of *)
(* None or Err, an index beyond a slice, a u32 subtraction below zero that *)
(* ends beyond the buffer), after which no call changes it.                *)
(* Results are [ix, ret] with the IndexPage after the call.                *)
(***************************************************************************)
ZeroSlots == [i \in 0..(IndexSlots - 1) |-> [page_id |-> 0, free_page_count |-> 0]]

Aborted(ix) == [ix EXCEPT !.panic = TRUE]

\* HashMap::insert
Insert(dirty, idx, bitmap) ==
    [i \in (DOMAIN dirty) \cup {idx} |-> IF i = idx THEN bitmap ELSE dirty[i]]

update_bitmap_data(ix, bitmap_idx, page_id, free_page_count) ==
    IF ix.panic THEN ix
    ELSE IF bitmap_idx >= IndexSlots THEN Aborted(ix)
    ELSE LET i1 == [ix EXCEPT !.slots[bitmap_idx] =
                        [page_id |-> page_id, free_page_count |-> free_page_count]]
             later == {idx \in (bitmap_idx + 1)..(ix.current_bitmap_count - 1) :
                          i1.slots[idx].free_page_count > 0}
         IN  IF bitmap_idx < ix.first_free_bitmap_idx /\ free_page_count > 0
             THEN [i1 EXCEPT !.first_free_bitmap_idx = bitmap_idx]
             ELSE IF bitmap_idx = ix.first_free_bitmap_idx /\ free_page_count = 0
             THEN [i1 EXCEPT !.first_free_bitmap_idx =
                       IF later = {} THEN ix.current_bitmap_count ELSE SetMin(later)]
             ELSE i1

\* update(bitmap): the slot is computed from the bitmap's first managed page;
\* a first managed page below the index's own gives no slot of the buffer.
update(ix, bitmap) ==
    IF ix.panic THEN ix
    ELSE IF bitmap.first_managed_page_id < ix.first_managed_page_id THEN Aborted(ix)
    ELSE update_bitmap_data(ix,
             (bitmap.first_managed_page_id - ix.first_managed_page_id)
                 \div BITMAP_PAGE_COUNT,
             bitmap.page_id, bitmap.free_page_count)

grow(bitmap) ==
    LET second  == new(BITMAP_PAGE_COUNT)
        page    == allocate(second, Unfiltered)
        index   == [page_id               |-> page.ret,
                    first_managed_page_id |-> bitmap.first_managed_page_id,
                    current_bitmap_count  |-> 2,
                    current_bitmap_idx    |-> 1,
                    first_free_bitmap_idx |-> IF bitmap.free_page_count > 0 THEN 0 ELSE 1,
                    dirty                 |-> << >>,
                    slots                 |-> ZeroSlots,
                    panic                 |-> FALSE]
        updated == update(update(index, bitmap), page.bm)
    IN  [updated EXCEPT !.dirty = Insert(@, 1, page.bm)]

\* grow_next_bitmap that grows while current_bitmap_count is at most the
\* number of slots.
grow_next_bitmap_one_more(ix) ==
    IF ix.panic THEN [ix |-> ix, ret |-> FALSE]
    ELSE IF ix.current_bitmap_count <= IndexSlots
    THEN LET bitmap == new(ix.first_managed_page_id
                               + ix.current_bitmap_count * BITMAP_PAGE_COUNT)
             i1 == update(ix, bitmap)
         IN  [ix  |-> [i1 EXCEPT !.dirty = Insert(@, ix.current_bitmap_count, bitmap),
                                 !.current_bitmap_idx = ix.current_bitmap_count,
                                 !.current_bitmap_count = ix.current_bitmap_count + 1],
              ret |-> TRUE]
    ELSE [ix |-> ix, ret |-> FALSE]

grow_next_bitmap(ix) ==
    IF ix.panic THEN [ix |-> ix, ret |-> FALSE]
    ELSE IF ix.current_bitmap_count < IndexSlots
    THEN LET bitmap == new(ix.first_managed_page_id
                               + ix.current_bitmap_count * BITMAP_PAGE_COUNT)
             i1 == update(ix, bitmap)
         IN  [ix  |-> [i1 EXCEPT !.dirty = Insert(@, ix.current_bitmap_count, bitmap),
                                 !.current_bitmap_idx = ix.current_bitmap_count,
                                 !.current_bitmap_count = ix.current_bitmap_count + 1],
              ret |-> TRUE]
    ELSE [ix |-> ix, ret |-> FALSE]

\* A page written by IndexPage::persist carries slots in place of a payload.
\* What the bytes of such a page give when they are read as a bitmap is not
\* modelled: the run of the model ends there, as it does at an abort.
IsBitmapShaped(page) == "slots" \notin DOMAIN page

(***************************************************************************)
(* allocate, free and activate_next_bitmap call one another: free of a     *)
(* page whose bitmap is not loaded allocates a page for that bitmap, and   *)
(* allocate activates the next bitmap when the current one gives nothing.  *)
(* Option<bool> is [some, val]; Option<u32> is a page id or None.          *)
(***************************************************************************)
RECURSIVE index_allocate(_, _, _)
RECURSIVE activate_loop(_, _, _, _, _)
RECURSIVE free_unloaded(_, _, _, _)

\* F(v), with v evaluated once however often F uses it.
With(v, F(_)) == CHOOSE y \in {F(x) : x \in {v}} : TRUE

NoBool(ix) == [ix |-> ix, some |-> FALSE, val |-> FALSE]

free_dirty(ix, page_id) ==
    IF ix.panic THEN NoBool(ix)
    ELSE IF page_id < ix.first_managed_page_id THEN NoBool(Aborted(ix))
    ELSE With((page_id - ix.first_managed_page_id) \div BITMAP_PAGE_COUNT, LAMBDA idx :
         IF idx \notin DOMAIN ix.dirty THEN NoBool(ix)
         ELSE With(free(ix.dirty[idx], page_id), LAMBDA r :
              IF r.panic THEN NoBool(Aborted(ix))
              ELSE [ix   |-> update_bitmap_data([ix EXCEPT !.dirty[idx] = r.bm], idx,
                                                r.bm.page_id, r.bm.free_page_count),
                    some |-> TRUE, val |-> r.ret]))

index_free(ix, d, page_id, f) ==
    With(free_dirty(ix, page_id), LAMBDA freed :
        IF freed.some \/ freed.ix.panic THEN freed
        ELSE free_unloaded(ix, d, page_id, f))

\* The body of `match BitmapPage::load(..) { Some(bitmap) => .. }`.
activate_loaded(ix, d, bitmap_page_id, idx, bitmap, f) ==
    With([update(ix, bitmap) EXCEPT !.current_bitmap_idx = idx,
                                    !.dirty = Insert(@, idx, bitmap)], LAMBDA i2 :
        IF i2.panic THEN [ix |-> i2, ret |-> FALSE]
        ELSE IF contains(bitmap, bitmap_page_id) THEN [ix |-> i2, ret |-> TRUE]
        ELSE With(index_free(i2, d, bitmap_page_id, f), LAMBDA fr :
                 [ix |-> fr.ix, ret |-> fr.some]))

\* for idx in bitmap_idx..current_bitmap_count: the page read is the one of
\* slot bitmap_idx in every round.
activate_loop(ix, d, bitmap_idx, idx, f) ==
    IF ix.panic THEN [ix |-> ix, ret |-> FALSE]
    ELSE IF idx >= ix.current_bitmap_count THEN grow_next_bitmap(ix)
    ELSE With(ix.slots[bitmap_idx].page_id, LAMBDA bitmap_page_id :
         IF ~CanRead(d, bitmap_page_id) \/ ~IsBitmapShaped(read_page(d, bitmap_page_id))
         THEN [ix |-> Aborted(ix), ret |-> FALSE]
         ELSE With(load(read_page(d, bitmap_page_id), f), LAMBDA r :
              IF r.panic THEN [ix |-> Aborted(ix), ret |-> FALSE]
              ELSE IF ~r.some THEN activate_loop(ix, d, bitmap_idx, idx + 1, f)
              ELSE activate_loaded(ix, d, bitmap_page_id, idx, r.bm, f)))

activate_next_bitmap(ix, d, bitmap_idx, f) == activate_loop(ix, d, bitmap_idx, bitmap_idx, f)

\* IndexPage::allocate: [ix, ret, rounds]; rounds lists the current_bitmap_idx
\* each round of the loop has started with.
index_allocate(ix, d, f) ==
    IF ix.panic THEN [ix |-> ix, ret |-> None, rounds |-> << >>]
    ELSE IF ix.current_bitmap_idx \notin DOMAIN ix.dirty
    THEN [ix |-> Aborted(ix), ret |-> None, rounds |-> <<ix.current_bitmap_idx>>]
    ELSE With(allocate(ix.dirty[ix.current_bitmap_idx], f), LAMBDA r :
         With(update_bitmap_data([ix EXCEPT !.dirty[ix.current_bitmap_idx] = r.bm],
                                 ix.current_bitmap_idx, r.bm.page_id,
                                 r.bm.free_page_count), LAMBDA i2 :
              IF r.ret # None
              THEN [ix |-> i2, ret |-> r.ret, rounds |-> <<ix.current_bitmap_idx>>]
              ELSE With(activate_next_bitmap(i2, d, ix.current_bitmap_idx + 1, f), LAMBDA a :
                   IF ~a.ret
                   THEN [ix |-> a.ix, ret |-> None, rounds |-> <<ix.current_bitmap_idx>>]
                   ELSE With(index_allocate(a.ix, d, f), LAMBDA rest :
                        [rest EXCEPT !.rounds = <<ix.current_bitmap_idx>> \o @]))))

\* The part of free_unloaded after the page of the bitmap has been read.
free_loaded_into(ix, bitmap_idx, bitmap_memory, new_bitmap_page_id, page_id) ==
    With(load_into(bitmap_memory, new_bitmap_page_id), LAMBDA r :
    With(free(r.bm, page_id), LAMBDA result :
        IF r.panic \/ result.panic THEN NoBool(Aborted(ix))
        ELSE With(update(ix, result.bm), LAMBDA i1 :
                 [ix   |-> [i1 EXCEPT !.dirty = Insert(@, bitmap_idx, result.bm)],
                  some |-> ~i1.panic, val |-> result.ret])))

free_unloaded(ix, d, page_id, f) ==
    With(index_allocate(ix, d, f), LAMBDA a :
    With((page_id - ix.first_managed_page_id) \div BITMAP_PAGE_COUNT, LAMBDA bitmap_idx :
        IF a.ret = None THEN NoBool(a.ix)
        ELSE IF bitmap_idx >= IndexSlots THEN NoBool(Aborted(a.ix))
        ELSE With(a.ix.slots[bitmap_idx].page_id, LAMBDA old_bitmap_page_id :
             IF ~CanRead(d, old_bitmap_page_id) THEN NoBool(a.ix)
             ELSE IF ~IsBitmapShaped(read_page(d, old_bitmap_page_id))
             THEN NoBool(Aborted(a.ix))
             ELSE free_loaded_into(a.ix, bitmap_idx, read_page(d, old_bitmap_page_id),
                                   a.ret, page_id))))

\* load that hands the IndexPage back as soon as a bitmap is active, without
\* allocating a page for it.
index_load_without_page(memory, d, f) ==
    With([page_id               |-> None,
          first_managed_page_id |-> get_u32(memory.header, 8),
          current_bitmap_count  |-> get_u16(memory.header, 12),
          current_bitmap_idx    |-> get_u16(memory.header, 14),
          first_free_bitmap_idx |-> get_u16(memory.header, 14),
          dirty                 |-> << >>,
          slots                 |-> memory.slots,
          panic                 |-> FALSE], LAMBDA index :
    With(activate_next_bitmap(index, d, index.first_free_bitmap_idx, f), LAMBDA act :
        [ix |-> act.ix, some |-> act.ret]))

\* IndexPage::load(memory, page_store, f): [ix, some].  The page id the
\* source gives the IndexPage until it has allocated its own is 0xFFFFFFFF;
\* the model writes None for it.
index_load(memory, d, f) ==
    With([page_id               |-> None,
          first_managed_page_id |-> get_u32(memory.header, 8),
          current_bitmap_count  |-> get_u16(memory.header, 12),
          current_bitmap_idx    |-> get_u16(memory.header, 14),
          first_free_bitmap_idx |-> get_u16(memory.header, 14),
          dirty                 |-> << >>,
          slots                 |-> memory.slots,
          panic                 |-> FALSE], LAMBDA index :
    With(activate_next_bitmap(index, d, index.first_free_bitmap_idx, f), LAMBDA act :
        IF ~act.ret THEN [ix |-> act.ix, some |-> FALSE]
        ELSE With(index_allocate(act.ix, d, f), LAMBDA a :
             IF a.ret = None THEN [ix |-> a.ix, some |-> FALSE]
             ELSE With(index_free([a.ix EXCEPT !.page_id = a.ret], d,
                                  get_u32(memory.header, 0), f), LAMBDA fr :
                  [ix |-> fr.ix, some |-> fr.some]))))

\* IndexPage::update_header
index_update_header(ix) ==
    put_u16(put_u16(put_u32(put_u32(put_u32(ZeroHeader,
        0, ix.page_id), 4, PageTypeIndex), 8, ix.first_managed_page_id),
        12, ix.current_bitmap_count), 14, ix.first_free_bitmap_idx)

\* The dirty bitmaps are persisted in the order the HashMap iterates them, and
\* the first write the store refuses ends the persist: [disk, ok].  The store
\* has room for max_pages pages.
RECURSIVE persist_dirty(_, _, _, _)
persist_dirty(d, dirty, order, max_pages) ==
    IF order = << >> THEN [disk |-> d, ok |-> TRUE]
    ELSE With(dirty[Head(order)], LAMBDA bitmap :
         IF ~HasRoom(max_pages, bitmap.page_id) THEN [disk |-> d, ok |-> FALSE]
         ELSE With(write_page(d, bitmap.page_id, PersistedPage(bitmap)), LAMBDA written :
              persist_dirty(written, dirty, Tail(order), max_pages)))

\* persist that writes the index page first and the dirty bitmaps after it.
index_persist_index_first(ix, d, order, max_pages) ==
    IF ~HasRoom(max_pages, ix.page_id) THEN [disk |-> d, ok |-> FALSE]
    ELSE With(write_page(d, ix.page_id,
                  [header |-> index_update_header(ix), slots |-> ix.slots]), LAMBDA w :
         persist_dirty(w, ix.dirty, order, max_pages))

index_persist(ix, d, order, max_pages) ==
    With(persist_dirty(d, ix.dirty, order, max_pages), LAMBDA w :
        IF ~w.ok \/ ~HasRoom(max_pages, ix.page_id) THEN [disk |-> w.disk, ok |-> FALSE]
        ELSE [disk |-> write_page(w.disk, ix.page_id,
                          [header |-> index_update_header(ix), slots |-> ix.slots]),
              ok   |-> TRUE])

(***************************************************************************)
(* A program that owns one BitmapPage and a PageStore, as the tests of     *)
(* io/bitmap/tests.rs do: it allocates and frees on the bitmap, persists   *)
(* it and reads the page back (view), and later builds its next BitmapPage *)
(* from that view with load or load_into.                                  *)
(*   bm         the BitmapPage in memory (meaningful while live)           *)
(*   live       the program holds a BitmapPage                             *)
(*   view       the MemoryPage read back after the last persist            *)
(*   hasView    the program holds a view                                   *)
(*   loads      how many times load or load_into has run                   *)
(*   lastAlloc  the page id of the last successful allocate of bm, or None *)
(*   panicked   the program has aborted                                    *)
(*   last       the last call: its name, its inputs (f, arg, view), bm     *)
(*              before it (pre), lastAlloc before it (prev_alloc) and what *)
(*              it returned (ret: a page id or None; ok: a bool / Some)    *)
(***************************************************************************)
VARIABLES bm, live, view, hasView, loads, lastAlloc, panicked, last

bvars == <<bm, live, view, hasView, loads, lastAlloc, panicked, last>>

(***************************************************************************)
(* A program that owns one IndexPage and a PageStore: it grows the index   *)
(* from the first bitmap, as the test of io/index.rs does, allocates and   *)
(* frees pages through it, persists it and loads it again from the page it *)
(* was persisted to.                                                       *)
(*   first_bitmap  the first bitmap, which the program handed to grow      *)
(*   ix        the IndexPage in memory                                     *)
(*   disk      the pages of the store                                      *)
(*   max_pages the pages the store has room for (max_size / PAGE_SIZE)     *)
(*   root      the page id of the last page IndexPage::persist wrote, or   *)
(*             None                                                        *)
(*   used      the page ids allocate has returned to the program and the   *)
(*             program has not passed to free since                        *)
(*   saved     used, as it was at the last persist                         *)
(*   icalls    how many times allocate, persist, load and free have run    *)
(*   ilast     the last call on the IndexPage: its name, its inputs, used  *)
(*             before it and what it returned                              *)
(***************************************************************************)
VARIABLES first_bitmap, ix, disk, max_pages, root, used, saved, icalls, ilast

ivars == <<first_bitmap, ix, disk, max_pages, root, used, saved, icalls, ilast>>

(***************************************************************************)
(* PageStore (io/store.rs), byte by byte.  The file is a sequence of bytes *)
(* (byte i of the file is file[i + 1]); reads go through the memory map,   *)
(* which shows the bytes of the file (write-through).  Offsets are usize:  *)
(* a product or sum that does not fit aborts the program in a build with   *)
(* overflow checks and wraps in a build without them.                      *)
(* Results are [file, current_size, res, content]: res is "Ok",            *)
(* "InvalidInput", "OsError" (an error of the file system) or "Abort";     *)
(* content is the content() of the MemoryPage a read_page returned.        *)
(***************************************************************************)
USIZE == UsizePages * PAGE_SIZE

max_size == StoreMaxPages * PAGE_SIZE

Zeros(n) == [i \in 1..n |-> 0]

StoreResult(st, res, content) ==
    [file |-> st.file, current_size |-> st.current_size, res |-> res,
     content |-> content]

\* file.set_len(new_size) when the file grows: the new bytes are 0.
set_len(file, new_size) == file \o Zeros(new_size - Len(file))

\* write_all that writes the buffer at the start of the file.
write_all_at_start(file, pos, buf) ==
    [i \in 1..Len(file) |-> IF i - 1 < Len(buf) THEN buf[i] ELSE file[i]]

\* file.seek(SeekFrom::Start(pos)) and file.write_all(buf), inside the file.
write_all(file, pos, buf) ==
    [i \in 1..Len(file) |->
        IF i - 1 >= pos /\ i - 1 < pos + Len(buf) THEN buf[i - pos] ELSE file[i]]

\* ensure_page_exists_at that grows the file whatever max_size is.
ensure_page_exists_at_unbounded(st, pos, checked) ==
    LET new_size == ((pos \div PAGE_SIZE) * PAGE_SIZE) + PAGE_SIZE
    IN  IF new_size >= USIZE
        THEN StoreResult(st, IF checked THEN "Abort" ELSE "Ok", << >>)
        ELSE IF new_size > st.current_size
        THEN [file |-> set_len(st.file, new_size), current_size |-> new_size,
              res |-> "Ok", content |-> << >>]
        ELSE StoreResult(st, "Ok", << >>)

\* ensure_page_exists_at(pos).  (pos & !(PAGE_SIZE - 1)) is pos rounded down
\* to a multiple of the page size; the sum with PAGE_SIZE is a usize.
ensure_page_exists_at(st, pos, checked) ==
    LET new_size == ((pos \div PAGE_SIZE) * PAGE_SIZE) + PAGE_SIZE
    IN  IF new_size >= USIZE
        THEN StoreResult(st, IF checked THEN "Abort" ELSE "Ok", << >>)
        ELSE IF new_size > max_size
        THEN StoreResult(st, "InvalidInput", << >>)
        ELSE IF new_size > st.current_size
        THEN [file |-> set_len(st.file, new_size), current_size |-> new_size,
              res |-> "Ok", content |-> << >>]
        ELSE StoreResult(st, "Ok", << >>)

\* write_buf_at(buf, pos).  A pos the page of which ensure_page_exists_at let
\* through by wrapping lies in the upper half of the usize range, where the
\* file system refuses the seek.
write_buf_at(st, buf, pos, checked) ==
    LET e == ensure_page_exists_at(st, pos, checked)
    IN  IF e.res # "Ok" THEN e
        ELSE IF pos + Len(buf) > Len(e.file) THEN StoreResult(st, "OsError", << >>)
        ELSE [file |-> write_all(e.file, pos, buf), current_size |-> e.current_size,
              res |-> "Ok", content |-> << >>]

\* PageStore::write_page(id, buf)
PageStore_write_page(st, id, buf, checked) ==
    IF Len(buf) # PAGE_SIZE THEN StoreResult(st, "InvalidInput", << >>)
    ELSE IF id * PAGE_SIZE >= USIZE /\ checked THEN StoreResult(st, "Abort", << >>)
    ELSE write_buf_at(st, buf, (id * PAGE_SIZE) % USIZE, checked)

\* PageStore::write_page_range(id, offset, buf)
write_page_range(st, id, offset, buf, checked) ==
    IF offset + Len(buf) > PAGE_SIZE THEN StoreResult(st, "InvalidInput", << >>)
    ELSE IF (id * PAGE_SIZE >= USIZE \/ ((id * PAGE_SIZE) % USIZE) + offset >= USIZE)
            /\ checked
    THEN StoreResult(st, "Abort", << >>)
    ELSE write_buf_at(st, buf, (((id * PAGE_SIZE) % USIZE) + offset) % USIZE, checked)

\* PageStore::read_page(id), with the content() of the MemoryPage it returns.
\* An end that wrapped to 0 passes the test against current_size; the
\* MemoryPage then has its end before its start and gives no content.
PageStore_read_page(st, id, checked) ==
    LET offset == (id * PAGE_SIZE) % USIZE
        end == (offset + PAGE_SIZE) % USIZE
    IN  IF (id * PAGE_SIZE >= USIZE \/ offset + PAGE_SIZE >= USIZE) /\ checked
        THEN StoreResult(st, "Abort", << >>)
        ELSE IF end > st.current_size THEN StoreResult(st, "InvalidInput", << >>)
        ELSE IF end < offset THEN StoreResult(st, "Ok", << >>)
        ELSE StoreResult(st, "Ok", SubSeq(st.file, offset + 1, end))

(***************************************************************************)
(* A program that owns one PageStore over a temporary file, as the tests   *)
(* of io/store.rs do, and writes and reads pages.                          *)
(*   file          the bytes of the file                                   *)
(*   current_size  the field of the PageStore                              *)
(*   checked       the build has overflow checks (a debug build)           *)
(*   scalls        how many calls the program has made on the store        *)
(*   slast         the last call: its name, its inputs (id, offset, buf),  *)
(*                 the file and current_size before it, its result, and    *)
(*                 the content of the page it read                         *)
(***************************************************************************)
VARIABLES file, current_size, checked, scalls, slast

svars == <<file, current_size, checked, scalls, slast>>

vars == <<bvars, ivars, svars>>

\* PageStore::new(tempfile(), max_size): the file is empty.
PageStoreNew ==
    /\ file = << >>
    /\ current_size = 0
    /\ scalls = 0
    /\ slast = [op |-> "new", id |-> 0, offset |-> 0, buf |-> << >>,
                file |-> << >>, current_size |-> 0, res |-> "Ok",
                content |-> << >>]

\* n unfiltered allocates on a BitmapPage, one after the other.
RECURSIVE AllocateTimes(_, _)
AllocateTimes(b, n) ==
    IF n = 0 THEN b
    ELSE With(allocate(b, Unfiltered).bm, LAMBDA b1 : AllocateTimes(b1, n - 1))

\* The first bitmaps the program grows its IndexPage from: the fresh
\* BitmapPage::new(2), and new(2) with every page allocated.
FirstBitmaps == {new(NewFirst), AllocateTimes(new(NewFirst), BITMAP_PAGE_COUNT - 1)}

Call(op, f, arg, v, ret, ok) ==
    [op |-> op, f |-> f, arg |-> arg, view |-> v, pre |-> bm,
     prev_alloc |-> lastAlloc, ret |-> ret, ok |-> ok]

Init ==
    /\ bm = new(NewFirst)
    /\ live = TRUE
    /\ view = ZeroPage
    /\ hasView = FALSE
    /\ loads = 0
    /\ lastAlloc = None
    /\ panicked = FALSE
    /\ last = [op |-> "new", f |-> Unfiltered, arg |-> NewFirst, view |-> ZeroPage,
               pre |-> new(NewFirst), prev_alloc |-> None, ret |-> None, ok |-> TRUE]
    /\ first_bitmap = new(NewFirst)
    /\ ix = grow(first_bitmap)
    /\ disk = << >>
    /\ max_pages = MaxPageId + 1
    /\ root = None
    /\ used = {}
    /\ saved = {}
    /\ icalls = [allocate |-> 0, persist |-> 0, load |-> 0, free |-> 0]
    /\ ilast = [op |-> "grow", f |-> Unfiltered, arg |-> NewFirst, used |-> {},
                ret |-> None, ok |-> TRUE]
    /\ checked = TRUE
    /\ PageStoreNew

\* The page ids the program passes to free: the page below the managed range,
\* the second page of the range, its last page and the page after it.
FreeArgs ==
    {p \in PageIds :
        p \in {bm.first_managed_page_id - 1, bm.first_managed_page_id + 1,
               bm.first_managed_page_id + BITMAP_PAGE_COUNT - 1,
               bm.first_managed_page_id + BITMAP_PAGE_COUNT}}

\* The page ids the program passes to load_into as the new location: page 0
\* and the page the view was read from.
LoadIntoArgs == {0, get_u32(view.header, 0)}

Allocate(f) ==
    /\ ~panicked /\ live
    /\ LET r == allocate(bm, f)
       IN  /\ bm' = r.bm
           /\ lastAlloc' = IF r.ret = None THEN lastAlloc ELSE r.ret
           /\ last' = Call("allocate", f, 0, ZeroPage, r.ret, r.ret # None)
    /\ UNCHANGED <<live, view, hasView, loads, panicked>>
    /\ UNCHANGED ivars
    /\ UNCHANGED svars

Free(p) ==
    /\ ~panicked /\ live
    /\ LET r == free(bm, p)
       IN  /\ bm' = r.bm
           /\ panicked' = r.panic
           /\ last' = Call("free", Unfiltered, p, ZeroPage, None, r.ret)
    /\ UNCHANGED <<live, view, hasView, loads, lastAlloc>>
    /\ UNCHANGED ivars
    /\ UNCHANGED svars

\* persist, then store.read_page(page_id) on the store of a fresh file; the
\* program lets go of the BitmapPage it persisted.
Persist ==
    /\ ~panicked /\ live
    /\ CanWrite(<< >>, bm.page_id)
    /\ LET d == write_page(<< >>, bm.page_id, PersistedPage(bm))
       IN  /\ view' = read_page(d, bm.page_id)
           /\ last' = Call("persist", Unfiltered, bm.page_id, read_page(d, bm.page_id),
                           None, TRUE)
    /\ hasView' = TRUE
    /\ live' = FALSE
    /\ UNCHANGED <<bm, loads, lastAlloc, panicked>>
    /\ UNCHANGED ivars
    /\ UNCHANGED svars

\* BitmapPage::load(&view, f); the view is dropped afterwards.
Load(f) ==
    /\ ~panicked /\ hasView
    /\ loads < MaxLoads
    /\ loads' = loads + 1
    /\ LET r == load(view, f)
       IN  /\ bm' = IF r.some THEN r.bm ELSE bm
           /\ live' = (live \/ r.some)
           /\ lastAlloc' = IF r.some THEN None ELSE lastAlloc
           /\ panicked' = r.panic
           /\ last' = Call("load", f, get_u32(view.header, 0), view, None, r.some)
    /\ view' = ZeroPage
    /\ hasView' = FALSE
    /\ UNCHANGED ivars
    /\ UNCHANGED svars

\* BitmapPage::load_into(&view, target); the view is dropped afterwards.
LoadInto(target) ==
    /\ ~panicked /\ hasView
    /\ loads < MaxLoads
    /\ loads' = loads + 1
    /\ LET r == load_into(view, target)
       IN  /\ bm' = IF r.some THEN r.bm ELSE bm
           /\ live' = (live \/ r.some)
           /\ lastAlloc' = IF r.some THEN None ELSE lastAlloc
           /\ panicked' = r.panic
           /\ last' = Call("load_into", Unfiltered, target, view, None, r.some)
    /\ view' = ZeroPage
    /\ hasView' = FALSE
    /\ UNCHANGED ivars
    /\ UNCHANGED svars

Next ==
    \/ \E f \in Filters : Allocate(f)
    \/ \E p \in FreeArgs : Free(p)
    \/ Persist
    \/ \E f \in Filters : Load(f)
    \/ \E target \in LoadIntoArgs : LoadInto(target)

Spec == Init /\ [][Next]_vars

(***************************************************************************)
(* A program that only creates BitmapPages: BitmapPage::new(f) for any     *)
(* first managed page id f, dropping the BitmapPage it held.               *)
(***************************************************************************)
NewArgs == 0..MaxNewFirst

New(f) ==
    /\ bm' = new(f)
    /\ live' = TRUE
    /\ lastAlloc' = None
    /\ last' = Call("new", Unfiltered, f, ZeroPage, None, TRUE)
    /\ UNCHANGED <<view, hasView, loads, panicked>>
    /\ UNCHANGED ivars
    /\ UNCHANGED svars

NextNew == \E f \in NewArgs : New(f)

SpecNew == Init /\ [][NextNew]_vars

(***************************************************************************)
(* The calls of the program that owns the IndexPage.                       *)
(***************************************************************************)
IndexFilters == {Unfiltered, RejectAll}

\* The filter |x| x > 2 * BITMAP_PAGE_COUNT + 2 of the test grow_on_load: it
\* rejects the page ids of the first two bitmaps and the first page of the
\* third.
RejectTwoBitmaps == {x \in PageIds : ~(x > 2 * BITMAP_PAGE_COUNT + NewFirst)}

\* The filters the program loads its IndexPage with.
LoadFilters == IndexFilters \cup {RejectTwoBitmaps}

\* The page ids the program frees: the lowest and the highest of those it
\* got from the IndexPage and holds, and page 3, which it holds when it has
\* filled the first bitmap before grow.
IndexFreeArgs ==
    {p \in used : \A q \in used : p <= q} \cup {p \in used : \A q \in used : q <= p}
        \cup {p \in {NewFirst + 1} : first_bitmap.free_page_count = 0}

\* The orders in which a HashMap of the keys S can be iterated.
Orders(S) ==
    {o \in [1..Cardinality(S) -> S] :
        \A i, j \in 1..Cardinality(S) : i # j => o[i] # o[j]}

ICall(op, f, arg, ret, ok) ==
    [op |-> op, f |-> f, arg |-> arg, used |-> used, ret |-> ret, ok |-> ok]

IndexAllocate(f) ==
    /\ ~ix.panic
    /\ icalls.allocate < MaxIndexAllocs
    /\ icalls' = [icalls EXCEPT !.allocate = @ + 1]
    /\ \E r \in {index_allocate(ix, disk, f)} :
           /\ ix' = r.ix
           /\ used' = IF r.ret = None THEN used ELSE used \cup {r.ret}
           /\ ilast' = ICall("allocate", f, 0, r.ret, r.ret # None)
    /\ UNCHANGED <<first_bitmap, disk, max_pages, root, saved>>
    /\ UNCHANGED bvars
    /\ UNCHANGED svars

IndexFree(p, f) ==
    /\ ~ix.panic
    /\ icalls.free < MaxIndexFrees
    /\ icalls' = [icalls EXCEPT !.free = @ + 1]
    /\ \E r \in {index_free(ix, disk, p, f)} :
           /\ ix' = r.ix
           /\ ilast' = ICall("free", f, p, IF r.some THEN 1 ELSE None, r.some /\ r.val)
    /\ used' = used \ {p}
    /\ UNCHANGED <<first_bitmap, disk, max_pages, root, saved>>
    /\ UNCHANGED bvars
    /\ UNCHANGED svars

IndexPersist(order) ==
    /\ ~ix.panic
    /\ icalls.persist < MaxIndexPersists
    /\ icalls' = [icalls EXCEPT !.persist = @ + 1]
    /\ \E w \in {index_persist(ix, disk, order, max_pages)} :
           /\ disk' = w.disk
           /\ root' = IF w.ok THEN ix.page_id ELSE root
           /\ saved' = IF w.ok THEN used ELSE saved
           /\ ilast' = ICall("persist", Unfiltered, ix.page_id, None, w.ok)
    /\ UNCHANGED <<first_bitmap, ix, max_pages, used>>
    /\ UNCHANGED bvars
    /\ UNCHANGED svars

\* IndexPage::load(&page_store.read_page(root), &page_store, f); on Some the
\* program goes on with the loaded IndexPage.
IndexLoad(f) ==
    /\ ~ix.panic
    /\ root # None
    /\ ~IsBitmapShaped(read_page(disk, root))
    /\ icalls.load < MaxIndexLoads
    /\ icalls' = [icalls EXCEPT !.load = @ + 1]
    /\ \E r \in {index_load(read_page(disk, root), disk, f)} :
           /\ ix' = IF r.some THEN r.ix ELSE IF r.ix.panic THEN Aborted(ix) ELSE ix
           /\ used' = IF r.some THEN saved ELSE used
           /\ ilast' = ICall("load", f, root, None, r.some)
    /\ UNCHANGED <<first_bitmap, disk, max_pages, root, saved>>
    /\ UNCHANGED bvars
    /\ UNCHANGED svars

NextIndex ==
    \/ \E f \in IndexFilters : IndexAllocate(f)
    \/ \E p \in IndexFreeArgs : \E f \in IndexFilters : IndexFree(p, f)
    \/ \E order \in Orders(DOMAIN ix.dirty) : IndexPersist(order)
    \/ \E f \in IndexFilters : IndexLoad(f)

\* n unfiltered allocates on an IndexPage, one after the other, on a store
\* without pages: [ix, used, ret] with the page ids returned and the last
\* result.
RECURSIVE IndexAllocateTimes(_, _)
IndexAllocateTimes(st, n) ==
    IF n = 0 THEN st
    ELSE With(index_allocate(st.ix, << >>, Unfiltered), LAMBDA r :
         IndexAllocateTimes([ix   |-> r.ix,
                             used |-> IF r.ret = None THEN st.used
                                      ELSE st.used \cup {r.ret},
                             ret  |-> r.ret], n - 1))

\* The allocates the program has made since grow when the model starts: none,
\* or as many as fill the second bitmap.
PriorAllocates == {0, BITMAP_PAGE_COUNT - 2}

\* The program has grown its IndexPage from one of the first bitmaps, over a
\* store with room for `pages` pages.
GrownIndex(pages) ==
    /\ bm = new(NewFirst)
    /\ live = TRUE
    /\ view = ZeroPage
    /\ hasView = FALSE
    /\ loads = 0
    /\ lastAlloc = None
    /\ panicked = FALSE
    /\ last = [op |-> "new", f |-> Unfiltered, arg |-> NewFirst, view |-> ZeroPage,
               pre |-> new(NewFirst), prev_alloc |-> None, ret |-> None, ok |-> TRUE]
    /\ first_bitmap \in FirstBitmaps
    /\ \E n \in PriorAllocates :
       \E st \in {IndexAllocateTimes([ix |-> grow(first_bitmap), used |-> {},
                                      ret |-> None], n)} :
           /\ ix = st.ix
           /\ used = st.used
           /\ ilast = IF n = 0
                      THEN [op |-> "grow", f |-> Unfiltered, arg |-> NewFirst,
                            used |-> {}, ret |-> None, ok |-> TRUE]
                      ELSE [op |-> "allocate", f |-> Unfiltered, arg |-> 0,
                            used |-> st.used \ {st.ret}, ret |-> st.ret,
                            ok |-> st.ret # None]
    /\ disk = << >>
    /\ max_pages = pages
    /\ root = None
    /\ saved = {}
    /\ icalls = [allocate |-> 0, persist |-> 0, load |-> 0, free |-> 0]
    /\ checked = TRUE
    /\ PageStoreNew

\* The store has room for every page id of the model.
InitIndex == GrownIndex(MaxPageId + 1)

SpecIndex == InitIndex /\ [][NextIndex]_vars

(***************************************************************************)
(* The program that owns the IndexPage while it frees nothing: it          *)
(* allocates with the always-true filter, persists, and loads the          *)
(* persisted index again, with any of the filters of io/index/tests.rs.    *)
(***************************************************************************)
NextPersist ==
    \/ IndexAllocate(Unfiltered)
    \/ \E order \in Orders(DOMAIN ix.dirty) : IndexPersist(order)
    \/ \E f \in LoadFilters : IndexLoad(f)

SpecPersist == InitIndex /\ [][NextPersist]_vars

(***************************************************************************)
(* The program that owns the IndexPage while it frees nothing, allocating  *)
(* with either filter: the filter that rejects every page id takes         *)
(* allocate through every bitmap the IndexPage has slots for.              *)
(***************************************************************************)
NextNoFree ==
    \/ \E f \in IndexFilters : IndexAllocate(f)
    \/ \E order \in Orders(DOMAIN ix.dirty) : IndexPersist(order)
    \/ \E f \in IndexFilters : IndexLoad(f)

SpecNoFree == InitIndex /\ [][NextNoFree]_vars

(***************************************************************************)
(* The program that frees page ids it never got from the IndexPage: the    *)
(* page below the first managed page, and the first page after the range   *)
(* of the last bitmap the IndexPage counts.                                *)
(***************************************************************************)
UncoveredArgs ==
    {p \in PageIds :
        p \in {ix.first_managed_page_id - 1,
               ix.first_managed_page_id + ix.current_bitmap_count * BITMAP_PAGE_COUNT}}

NextUncovered ==
    \/ \E f \in IndexFilters : IndexAllocate(f)
    \/ \E p \in UncoveredArgs : \E f \in IndexFilters : IndexFree(p, f)
    \/ \E order \in Orders(DOMAIN ix.dirty) : IndexPersist(order)
    \/ \E f \in IndexFilters : IndexLoad(f)

SpecUncovered == InitIndex /\ [][NextUncovered]_vars

(***************************************************************************)
(* The same program over stores of several sizes: one that ends before the *)
(* page of the IndexPage grow makes, one that ends with that page, and one *)
(* with room for every page.                                               *)
(***************************************************************************)
SmallStores == {BITMAP_PAGE_COUNT + 1, BITMAP_PAGE_COUNT + 2, MaxPageId + 1}

InitSmallStore == \E pages \in SmallStores : GrownIndex(pages)

SpecSmallStore == InitSmallStore /\ [][NextPersist]_vars


(***************************************************************************)
(* The calls of the program that owns the PageStore.                       *)
(***************************************************************************)
\* [k, k + 1, ..] of length n; [1, 2, 3, 4, 5] is Counting(5, 1).
Counting(n, k) == [i \in 1..n |-> (k + i - 1) % 256]

\* The buffers the program hands to write_page: a page, one byte less and
\* one byte more, of zeros or of counted bytes.
PageBufs ==
    {Zeros(n) : n \in {PAGE_SIZE - 1, PAGE_SIZE, PAGE_SIZE + 1}}
        \cup {Counting(n, 1) : n \in {PAGE_SIZE - 1, PAGE_SIZE, PAGE_SIZE + 1}}

\* The buffers the program hands to write_page_range.
RangeBufs == {Counting(0, 1), Counting(RangeBufLen, 1), Counting(RangeBufLen, 11)}

\* The offsets it hands to write_page_range: the start of the page, the last
\* offset the buffer [1, 2, 3, 4, 5] fits at, the one after it, and the end of
\* the page.
RangeOffsets == {0, PAGE_SIZE - RangeBufLen, PAGE_SIZE - RangeBufLen + 1, PAGE_SIZE}

\* A page id is a u32 in the page header and in every caller of the store
\* (`page_id as usize`); the byte offset of the largest u32 page id, and of
\* the two pages after it, fits a usize.
MaxU32PageId == UsizePages - 3

\* The page ids the program uses: the first two pages, the last page max_size
\* has room for, the page after it, and the largest page id.
StoreIds == {0, 1, StoreMaxPages - 1, StoreMaxPages, MaxU32PageId}

StoreState == [file |-> file, current_size |-> current_size]

SCall(op, id, offset, buf, r) ==
    [op |-> op, id |-> id, offset |-> offset, buf |-> buf, file |-> file,
     current_size |-> current_size, res |-> r.res, content |-> r.content]

StoreRunning == slast.res # "Abort" /\ scalls < MaxStoreCalls

WritePage(id, buf) ==
    /\ StoreRunning
    /\ scalls' = scalls + 1
    /\ \E r \in {PageStore_write_page(StoreState, id, buf, checked)} :
           /\ file' = r.file
           /\ current_size' = r.current_size
           /\ slast' = SCall("write_page", id, 0, buf, r)
    /\ UNCHANGED checked
    /\ UNCHANGED <<bvars, ivars>>

WritePageRange(id, offset, buf) ==
    /\ StoreRunning
    /\ scalls' = scalls + 1
    /\ \E r \in {write_page_range(StoreState, id, offset, buf, checked)} :
           /\ file' = r.file
           /\ current_size' = r.current_size
           /\ slast' = SCall("write_page_range", id, offset, buf, r)
    /\ UNCHANGED checked
    /\ UNCHANGED <<bvars, ivars>>

ReadPage(id) ==
    /\ StoreRunning
    /\ scalls' = scalls + 1
    /\ \E r \in {PageStore_read_page(StoreState, id, checked)} :
           slast' = SCall("read_page", id, 0, << >>, r)
    /\ UNCHANGED <<file, current_size, checked>>
    /\ UNCHANGED <<bvars, ivars>>

NextStore ==
    \/ \E id \in StoreIds : \E buf \in PageBufs : WritePage(id, buf)
    \/ \E id \in StoreIds : \E offset \in RangeOffsets : \E buf \in RangeBufs :
           WritePageRange(id, offset, buf)
    \/ \E id \in StoreIds : ReadPage(id)

\* The program has opened a PageStore over an empty temporary file, in a
\* build with or without overflow checks.
InitStore ==
    /\ bm = new(NewFirst)
    /\ live = TRUE
    /\ view = ZeroPage
    /\ hasView = FALSE
    /\ loads = 0
    /\ lastAlloc = None
    /\ panicked = FALSE
    /\ last = [op |-> "new", f |-> Unfiltered, arg |-> NewFirst, view |-> ZeroPage,
               pre |-> new(NewFirst), prev_alloc |-> None, ret |-> None, ok |-> TRUE]
    /\ first_bitmap = new(NewFirst)
    /\ ix = grow(first_bitmap)
    /\ disk = << >>
    /\ max_pages = MaxPageId + 1
    /\ root = None
    /\ used = {}
    /\ saved = {}
    /\ icalls = [allocate |-> 0, persist |-> 0, load |-> 0, free |-> 0]
    /\ ilast = [op |-> "grow", f |-> Unfiltered, arg |-> NewFirst, used |-> {},
                ret |-> None, ok |-> TRUE]
    /\ checked \in BOOLEAN
    /\ PageStoreNew

SpecStore == InitStore /\ [][NextStore]_vars


(***************************************************************************)
(* What the claims speak of, said without the search of the source.        *)
(***************************************************************************)
Indices == 0..(BITMAP_PAGE_COUNT - 1)

ClearIndices(bitmap) == {i \in Indices : IsClear(bitmap, i)}

\* The clear indices at or after `from` whose page id the filter accepts.
FreeFrom(bitmap, first, from, f) ==
    {i \in ClearIndices(bitmap) : i >= from /\ Accepts(f, first + i)}

ViewPageId == get_u32(last.view.header, 0)

ViewFirst == get_u32(last.view.header, 8)

ViewCount == get_u16(last.view.header, 12)

ViewFloor == get_u16(last.view.header, 14)

\* C2: allocate(f) returns first_managed_page_id + i for the smallest clear
\* index i at or after the cursor whose page id passes f, sets bit i and no
\* other bit; when there is no such index it returns None, changes no bit and
\* leaves the cursor at 0xFFFF.
C2_AllocateFirstFit ==
    last.op = "allocate" =>
        LET c == FreeFrom(last.pre.bitmap, last.pre.first_managed_page_id,
                          last.pre.current_first_free_page_idx, last.f)
        IN  IF c = {}
            THEN /\ last.ret = None
                 /\ bm.bitmap = last.pre.bitmap
                 /\ bm.current_first_free_page_idx = NO_IDX
            ELSE /\ last.ret = last.pre.first_managed_page_id + SetMin(c)
                 /\ ClearIndices(bm.bitmap) = ClearIndices(last.pre.bitmap) \ {SetMin(c)}

\* An allocate that passed over a clear index the filter rejects.
C2_Witness ==
    /\ last.op = "allocate"
    /\ last.ret # None
    /\ \E i \in ClearIndices(last.pre.bitmap) :
          /\ i >= last.pre.current_first_free_page_idx
          /\ last.pre.first_managed_page_id + i < last.ret
          /\ ~Accepts(last.f, last.pre.first_managed_page_id + i)
    /\ ~IsClear(bm.bitmap, last.ret - bm.first_managed_page_id)

\* C3: the page ids one BitmapPage returns from successful allocates are
\* strictly increasing, whatever frees come between them, and the first
\* unfiltered allocate of a fresh BitmapPage::new(f) returns f + 1.
C3_AllocateIncreasing ==
    /\ (last.op = "allocate" /\ last.ret # None /\ last.prev_alloc # None)
          => last.ret > last.prev_alloc
    /\ (last.op = "allocate" /\ last.pre = new(NewFirst) /\ last.f = Unfiltered)
          => last.ret = NewFirst + 1

\* A successful allocate while a page below the last allocated one is free.
C3_Witness ==
    /\ last.op = "allocate"
    /\ last.ret # None
    /\ last.prev_alloc # None
    /\ \E i \in ClearIndices(last.pre.bitmap) :
          /\ last.pre.first_managed_page_id + i < last.prev_alloc
          /\ Accepts(last.f, last.pre.first_managed_page_id + i)

\* C4: load(view, f) returns None unless the payload has two clear indices at
\* or after the persisted first_free_page_idx whose page ids pass f.
C4_LoadNeedsTwo ==
    (/\ last.op = "load"
     /\ Cardinality(FreeFrom(last.view.body, ViewFirst, ViewFloor, last.f)) < 2)
        => (~last.ok /\ ~panicked)

\* A load, with the filter that accepts every id, of a page whose only clear
\* bit is the last index: it returned None.
C4_Witness ==
    /\ last.op = "load"
    /\ last.f = Unfiltered
    /\ ClearIndices(last.view.body) = {BITMAP_PAGE_COUNT - 1}
    /\ ~last.ok

\* A load of a page without a clear bit.
C4_WitnessFull ==
    last.op = "load" /\ last.f = Unfiltered /\ ClearIndices(last.view.body) = {} /\ ~last.ok

\* A load, with the filter that rejects every id, of a page with free bits.
C4_WitnessRejectAll ==
    /\ last.op = "load"
    /\ last.f = RejectAll
    /\ Cardinality(ClearIndices(last.view.body)) > 1
    /\ ~last.ok


\* What a successful load(view, f) leaves, as C5 states it.
LoadRelocated ==
    LET c == SetMin(FreeFrom(last.view.body, ViewFirst, ViewFloor, last.f))
    IN  /\ bm.page_id = ViewFirst + c
        /\ bm.first_managed_page_id = ViewFirst
        /\ ~IsClear(bm.bitmap, c)
        /\ bm.current_first_free_page_idx =
              SetMin(FreeFrom(last.view.body, ViewFirst, c + 1, last.f))
        /\ (ViewPageId - ViewFirst) \in Indices => IsClear(bm.bitmap, ViewPageId - ViewFirst)
        /\ bm.page_id # ViewPageId

\* What a persist leaves on the page it wrote (last.view is that page, read
\* back; last.arg the page id it was written to).
PersistWroteBitmap ==
    /\ last.arg = last.pre.page_id
    /\ ViewPageId = last.pre.page_id
    /\ get_u32(last.view.header, 4) = PageTypeBitmap
    /\ ViewFirst = last.pre.first_managed_page_id
    /\ ViewCount = last.pre.free_page_count
    /\ ViewFloor = last.pre.first_free_page_idx
    /\ last.view.body = last.pre.bitmap

\* C5: after a successful load(view, f) the bitmap lives at the first clear
\* index c at or after the persisted first_free_page_idx that passes f, bit c
\* is set, the cursor is the next clear index after c that passes f, the bit
\* of the view's old page id is clear and the page id differs from the old
\* one; a following persist writes the bitmap, header and payload, at that
\* page id.
C5_LoadRelocates ==
    /\ (last.op = "load" /\ last.ok) => LoadRelocated
    /\ (last.op = "persist" /\ last.ok) => PersistWroteBitmap


(***************************************************************************)
(* The load-and-relocate scenario of io/bitmap/tests.rs: new(2), two       *)
(* unfiltered allocates, free(3), persist (the page at id 2), load with    *)
(* the filter x != 3, one allocate, persist (the page at id 5).            *)
(***************************************************************************)
ScenarioFreed ==
    free(allocate(allocate(new(NewFirst), Unfiltered).bm, Unfiltered).bm, 3).bm

ScenarioPage2 == PersistedPage(ScenarioFreed)

ScenarioPage5 ==
    PersistedPage(allocate(load(ScenarioPage2, RejectThree).bm, RejectThree).bm)

\* C6, as the claim states it: load_into(view, 0) on the page the scenario
\* persisted at id 2 or at id 5 gives page_id 0, free_page_count B,
\* first_free_page_idx 0 and a first payload byte (byte 16 of the page) of 0.
C6_LoadIntoEmpty ==
    (last.op = "load_into" /\ last.arg = 0 /\ last.view \in {ScenarioPage2, ScenarioPage5})
        => /\ bm.page_id = 0
           /\ bm.free_page_count = BITMAP_PAGE_COUNT
           /\ bm.first_free_page_idx = 0
           /\ bm.bitmap[0] = 0

\* C6, amended: load_into(view, 0) gives page_id 0 and first_free_page_idx 0;
\* on the page persisted at id 2 free_page_count is B - 1 and the first
\* payload byte is 0x04 (page 4 stays allocated), on the page persisted at
\* id 5 free_page_count is B - 2 and the byte is 0x14 (pages 4 and 6 stay
\* allocated).
C6_LoadIntoKeepsAllocated ==
    /\ (last.op = "load_into" /\ last.arg = 0 /\ last.view = ScenarioPage2)
          => /\ last.ok
             /\ bm.page_id = 0
             /\ bm.first_free_page_idx = 0
             /\ bm.free_page_count = BITMAP_PAGE_COUNT - 1
             /\ bm.bitmap[0] = 4
    /\ (last.op = "load_into" /\ last.arg = 0 /\ last.view = ScenarioPage5)
          => /\ last.ok
             /\ bm.page_id = 0
             /\ bm.first_free_page_idx = 0
             /\ bm.free_page_count = BITMAP_PAGE_COUNT - 2
             /\ bm.bitmap[0] = 20

\* load_into(view, 0) has run on the page the scenario persisted at id 5.
C6_Witness ==
    /\ last.op = "load_into"
    /\ last.arg = 0
    /\ last.view = ScenarioPage5
    /\ get_u32(last.view.header, 0) = 5
    /\ bm.page_id = 0

\* load_into(view, 0) has run on the page the scenario persisted at id 2.
C6_WitnessPage2 ==
    last.op = "load_into" /\ last.arg = 0 /\ last.view = ScenarioPage2 /\ bm.page_id = 0

\* C7: free(p) returns true exactly when p lies in first_managed_page_id ..
\* first_managed_page_id + B - 1, and otherwise returns false and leaves the
\* bitmap as it was, however the BitmapPage was built.
C7_FreeInRange ==
    last.op = "free" =>
        /\ ~panicked
        /\ last.ok <=> (/\ last.arg >= last.pre.first_managed_page_id
                        /\ last.arg <= last.pre.first_managed_page_id + BITMAP_PAGE_COUNT - 1)
        /\ ~last.ok => bm = last.pre

\* C8: free_page_count is the number of clear bits of the payload.
C8_FreeCountIsClearBits ==
    bm.free_page_count = Cardinality(ClearIndices(bm.bitmap))

\* On a BitmapPage built by load or load_into, with allocated pages left, a
\* free has cleared a bit and a free of a page already free has run.
C8_Witness ==
    /\ loads > 0
    /\ last.op = "free"
    /\ last.ok
    /\ bm.bitmap # last.pre.bitmap
    /\ bm.free_page_count < BITMAP_PAGE_COUNT

C8_WitnessFreeTwice ==
    last.op = "free" /\ last.ok /\ bm = last.pre /\ bm.free_page_count < BITMAP_PAGE_COUNT

\* C9: first_free_page_idx is the smallest index whose bit is clear, or 0xFFFF
\* when every bit is set.
C9_FloorIsFirstClear ==
    bm.first_free_page_idx =
        IF ClearIndices(bm.bitmap) = {} THEN NO_IDX ELSE SetMin(ClearIndices(bm.bitmap))

\* An allocate took the index first_free_page_idx pointed at, and the next
\* clear index is one its filter rejects.
C9_Witness ==
    /\ last.op = "allocate"
    /\ last.ret = last.pre.first_managed_page_id + last.pre.first_free_page_idx
    /\ bm.first_free_page_idx # NO_IDX
    /\ ~Accepts(last.f, bm.first_managed_page_id + bm.first_free_page_idx)

\* Every bit is set.
C9_WitnessFull ==
    live /\ ClearIndices(bm.bitmap) = {} /\ bm.first_free_page_idx = NO_IDX

\* C10: current_first_free_page_idx is 0xFFFF, or an index at or after
\* first_free_page_idx whose bit is clear.
C10_CursorIsClear ==
    \/ bm.current_first_free_page_idx = NO_IDX
    \/ /\ bm.current_first_free_page_idx \in Indices
       /\ bm.current_first_free_page_idx >= bm.first_free_page_idx
       /\ IsClear(bm.bitmap, bm.current_first_free_page_idx)

\* An allocate moved the cursor on, past a clear index below it.
C10_Witness ==
    /\ last.op = "allocate"
    /\ last.ret # None
    /\ bm.current_first_free_page_idx \in Indices
    /\ bm.current_first_free_page_idx > last.pre.current_first_free_page_idx
    /\ bm.first_free_page_idx < bm.current_first_free_page_idx

\* The cursor is 0xFFFF while a clear index is left.
C10_WitnessNoIdx ==
    /\ live
    /\ bm.current_first_free_page_idx = NO_IDX
    /\ bm.first_free_page_idx # NO_IDX

\* The page ids of the bitmaps in the dirty map.
DirtyPageIds == {ix.dirty[i].page_id : i \in DOMAIN ix.dirty}

\* C1: allocate of the IndexPage never returns a page id in use: not the
\* IndexPage's own page_id, not the page_id of a bitmap in the dirty map, not
\* an id an earlier allocate returned that has not been freed since.
C1_AllocateNeverInUse ==
    (ilast.op = "allocate" /\ ilast.ret # None) =>
        /\ ilast.ret # ix.page_id
        /\ ilast.ret \notin DirtyPageIds
        /\ ilast.ret \notin ilast.used

\* The page ids a BitmapPage manages, as the claims count them.
ManagedRange(b) == b.first_managed_page_id..(b.first_managed_page_id + BITMAP_PAGE_COUNT - 1)

\* The bitmap has its own page id in its managed range, with its bit set.
OwnBitSet(b) ==
    /\ b.page_id \in ManagedRange(b)
    /\ ~IsClear(b.bitmap, b.page_id - b.first_managed_page_id)

\* C11: every BitmapPage the IndexPage holds, whether it was created by new,
\* by load or by load_into in free_unloaded, has its own page_id within
\* first_managed_page_id .. first_managed_page_id + B - 1 and the bit of that
\* page_id set in its own payload.
C11_OwnPageAllocated ==
    ~ix.panic => \A k \in DOMAIN ix.dirty : OwnBitSet(ix.dirty[k])

\* C12: after BitmapPage::new(f) page_id and first_managed_page_id are f,
\* first_free_page_idx is 1, free_page_count is B - 1, bit 0 is set and every
\* other bit is clear.
C12_NewState ==
    last.op = "new" =>
        /\ bm.page_id = last.arg
        /\ bm.first_managed_page_id = last.arg
        /\ bm.first_free_page_idx = 1
        /\ bm.free_page_count = BITMAP_PAGE_COUNT - 1
        /\ ClearIndices(bm.bitmap) = Indices \ {0}

\* BitmapPage::new has run with a first managed page id other than the one
\* the program started with.
C12_Witness ==
    /\ last.op = "new"
    /\ last.arg = NewFirst + BITMAP_PAGE_COUNT
    /\ last.pre.page_id # last.arg
    /\ bm.page_id = NewFirst + BITMAP_PAGE_COUNT

\* The page carries the header and the payload of the BitmapPage b.
CarriesBitmap(page, b) ==
    /\ IsBitmapShaped(page)
    /\ get_u32(page.header, 0) = b.page_id
    /\ get_u32(page.header, 4) = PageTypeBitmap
    /\ get_u32(page.header, 8) = b.first_managed_page_id
    /\ get_u16(page.header, 12) = b.free_page_count
    /\ get_u16(page.header, 14) = b.first_free_page_idx
    /\ page.body = b.bitmap

\* The pages of the store that carry a page type.
StructuredPageIds ==
    {id \in 0..(Len(disk) - 1) :
        get_u32(read_page(disk, id).header, 4) \in {PageTypeBitmap, PageTypeIndex}}

\* C13: after a persist the page stored at the page_id of a persisted
\* BitmapPage carries page_id at offset 0, type tag 1 at offset 4,
\* first_managed_page_id at offset 8, free_page_count at offset 12,
\* first_free_page_idx at offset 14 and the payload of the bitmap (of the
\* bitmap written last, where several were written to one page id); the page
\* of the IndexPage carries its page_id at offset 0 and type tag 2; and every
\* page of the store that carries a page type has at offset 0 the page id it
\* is stored at.
C13_PersistedPagesCarryId ==
    /\ \A id \in StructuredPageIds : get_u32(read_page(disk, id).header, 0) = id
    /\ (ilast.op = "persist" /\ ilast.ok) =>
          /\ get_u32(read_page(disk, ix.page_id).header, 0) = ix.page_id
          /\ get_u32(read_page(disk, ix.page_id).header, 4) = PageTypeIndex
          /\ \A k \in DOMAIN ix.dirty :
                ix.dirty[k].page_id # ix.page_id =>
                    \E k2 \in DOMAIN ix.dirty :
                        /\ ix.dirty[k2].page_id = ix.dirty[k].page_id
                        /\ CarriesBitmap(read_page(disk, ix.dirty[k].page_id), ix.dirty[k2])

\* A persist of a loaded IndexPage has written two bitmaps, one of them at a
\* page other than the first page it manages, next to the pages of an earlier
\* persist.
C13_Witness ==
    /\ ilast.op = "persist"
    /\ ilast.ok
    /\ icalls.load > 0
    /\ Cardinality(DirtyPageIds) >= 2
    /\ \E k \in DOMAIN ix.dirty :
          /\ ix.dirty[k].page_id # ix.dirty[k].first_managed_page_id
          /\ ix.dirty[k].page_id # ix.page_id
          /\ CarriesBitmap(read_page(disk, ix.dirty[k].page_id), ix.dirty[k])
    /\ Cardinality(StructuredPageIds) > Cardinality(DirtyPageIds) + 1

\* C14: after grow(first) first_managed_page_id is that of first,
\* current_bitmap_count is 2, current_bitmap_idx is 1, first_free_bitmap_idx
\* is 0 if first has a free page and 1 otherwise, and the dirty map holds
\* exactly two bitmaps: first at slot 0 and the new second bitmap at slot 1.
C14_GrowState ==
    ilast.op = "grow" =>
        /\ ix.first_managed_page_id = first_bitmap.first_managed_page_id
        /\ ix.current_bitmap_count = 2
        /\ ix.current_bitmap_idx = 1
        /\ ix.first_free_bitmap_idx = (IF first_bitmap.free_page_count > 0 THEN 0 ELSE 1)
        /\ DOMAIN ix.dirty = {0, 1}
        /\ ix.dirty[0] = first_bitmap
        /\ ix.dirty[1] # first_bitmap

\* C15: grow(first) creates the second bitmap with first_managed_page_id =
\* first.first_managed_page_id + B and takes the page id of the IndexPage from
\* it by one unfiltered allocate: the page id is
\* first.first_managed_page_id + B + 1.
C15_GrowSecondBitmap ==
    ilast.op = "grow" =>
        /\ 1 \in DOMAIN ix.dirty
        /\ ix.dirty[1].first_managed_page_id
              = first_bitmap.first_managed_page_id + BITMAP_PAGE_COUNT
        /\ ix.dirty[1].page_id = first_bitmap.first_managed_page_id + BITMAP_PAGE_COUNT
        /\ ~IsClear(ix.dirty[1].bitmap, 1)
        /\ ix.page_id = first_bitmap.first_managed_page_id + BITMAP_PAGE_COUNT + 1

\* C16: the bitmap of every slot k below current_bitmap_count manages
\* first_managed_page_id + k*B .. first_managed_page_id + (k+1)*B - 1: the
\* bitmap at key k of the dirty map does, the entry of slot k names the page
\* of that bitmap and of no other, and the ranges of the bitmaps of distinct
\* slots are disjoint.
C16_SlotRanges ==
    ~ix.panic =>
        /\ \A k \in DOMAIN ix.dirty :
              /\ k < ix.current_bitmap_count
              /\ ix.dirty[k].first_managed_page_id
                    = ix.first_managed_page_id + k * BITMAP_PAGE_COUNT
              /\ ix.slots[k].page_id = ix.dirty[k].page_id
        /\ \A j, k \in DOMAIN ix.dirty :
              j # k => ManagedRange(ix.dirty[j]) \cap ManagedRange(ix.dirty[k]) = {}

\* The slots below current_bitmap_count whose entry records free pages.
SlotsWithFreePages ==
    {k \in 0..(ix.current_bitmap_count - 1) : ix.slots[k].free_page_count > 0}

\* C17: first_free_bitmap_idx is the smallest slot whose recorded
\* free_page_count is above 0, or current_bitmap_count when every recorded
\* count is 0: it is 1 right after growing from a full first bitmap, and 2
\* once the allocates that follow have exhausted slot 1 too.
C17_FirstFreeBitmapIdx ==
    ~ix.panic =>
        /\ ix.first_free_bitmap_idx =
              IF SlotsWithFreePages = {} THEN ix.current_bitmap_count
              ELSE SetMin(SlotsWithFreePages)
        /\ (ilast.op = "grow" /\ first_bitmap.free_page_count = 0)
              => ix.first_free_bitmap_idx = 1
        /\ (/\ first_bitmap.free_page_count = 0
            /\ ix.current_bitmap_count = 2
            /\ \A k \in DOMAIN ix.dirty : ix.dirty[k].free_page_count = 0)
              => ix.first_free_bitmap_idx = 2

\* The bitmaps of the dirty map whose managed range covers the page id p.
Covering(p) == {k \in DOMAIN ix.dirty : p \in ManagedRange(ix.dirty[k])}

\* The bit of the page id p is set in the bitmap at key k of the dirty map.
SetIn(k, p) == ~IsClear(ix.dirty[k].bitmap, p - ix.dirty[k].first_managed_page_id)

\* C18: after grow or a successful load, and after the allocates and frees
\* that follow, the bit of the IndexPage's own page_id is set in the bitmap
\* in memory that covers it.
C18_IndexPageAllocated ==
    ~ix.panic =>
        /\ Covering(ix.page_id) # {}
        /\ \A k \in Covering(ix.page_id) : SetIn(k, ix.page_id)

\* The index page the last load was given.
LoadedFrom == read_page(disk, ilast.arg)

\* The slot k of the persisted index page names a page BitmapPage::load
\* accepts with the always-true filter.
Loadable(k) ==
    /\ CanRead(disk, LoadedFrom.slots[k].page_id)
    /\ IsBitmapShaped(read_page(disk, LoadedFrom.slots[k].page_id))
    /\ load(read_page(disk, LoadedFrom.slots[k].page_id), Unfiltered).some

LoadableSlots ==
    {k \in get_u16(LoadedFrom.header, 14)..(get_u16(LoadedFrom.header, 12) - 1) :
        Loadable(k)}

\* The page id p is marked allocated in the bitmap of its slot: in the dirty
\* copy, or in the page of the store the entry of the slot names.
MarkedAllocated(p) ==
    LET k == (p - ix.first_managed_page_id) \div BITMAP_PAGE_COUNT
        page == read_page(disk, ix.slots[k].page_id)
    IN  IF k \in DOMAIN ix.dirty
        THEN p \in ManagedRange(ix.dirty[k]) /\ SetIn(k, p)
        ELSE /\ CanRead(disk, ix.slots[k].page_id)
             /\ IsBitmapShaped(page)
             /\ p - get_u32(page.header, 8) \in Indices
             /\ ~IsClear(page.body, p - get_u32(page.header, 8))

\* C19: after persist and a load of the persisted index page with the
\* always-true filter the IndexPage has the persisted first_managed_page_id,
\* current_bitmap_count and first_free_bitmap_idx, current_bitmap_idx is the
\* first loadable slot at or after first_free_bitmap_idx, and every page id
\* the program held at the persist is still marked allocated in the bitmap
\* covering it.
C19_PersistLoadRoundTrip ==
    (ilast.op = "load" /\ ilast.ok /\ ilast.f = Unfiltered) =>
        /\ ix.first_managed_page_id = get_u32(LoadedFrom.header, 8)
        /\ ix.current_bitmap_count = get_u16(LoadedFrom.header, 12)
        /\ ix.first_free_bitmap_idx = get_u16(LoadedFrom.header, 14)
        /\ LoadableSlots # {}
        /\ ix.current_bitmap_idx = SetMin(LoadableSlots)
        /\ \A p \in used : MarkedAllocated(p)

\* C20: a successful load gives the IndexPage a page_id other than the page
\* id it was loaded from and other than the provisional 0xFFFFFFFF, marks the
\* new page id allocated and clears the bit of the old page id in the bitmap
\* covering it.
C20_LoadMovesIndexPage ==
    (ilast.op = "load" /\ ilast.ok) =>
        /\ ix.page_id # None
        /\ ix.page_id # ilast.arg
        /\ Covering(ix.page_id) # {}
        /\ \A k \in Covering(ix.page_id) : SetIn(k, ix.page_id)
        /\ Covering(ilast.arg) # {}
        /\ \A k \in Covering(ilast.arg) : ~SetIn(k, ilast.arg)

\* C21: IndexPage::persist never writes the index page, or the page of a
\* dirty bitmap, to the page id that holds the copy of that page the persist
\* before it wrote: the index page does not go to the page the last persist
\* wrote it to, and the bitmap of slot k does not go to the page the entry of
\* slot k named in the index page persisted last.
C21_PersistRelocates ==
    [][(ilast'.op = "persist" /\ ilast'.ok /\ icalls'.persist = icalls.persist + 1
            /\ root # None)
        => /\ root' # root
           /\ \A k \in DOMAIN ix.dirty :
                 read_page(disk, root).slots[k].page_id # ix.dirty[k].page_id]_vars

\* C22: IndexPage::load with the filter that rejects every page id returns
\* None, and does not abort, whatever persisted index page it is given.
C22_LoadRejectAllIsNone ==
    (ilast.op = "load" /\ ilast.f = RejectAll) => (~ilast.ok /\ ~ix.panic)

\* A load that rejects every page id has run on a persisted index page whose
\* bitmaps record free pages, and has returned None.
C22_Witness ==
    /\ ilast.op = "load"
    /\ ilast.f = RejectAll
    /\ ~ilast.ok
    /\ ~ix.panic
    /\ \E k \in 0..(get_u16(LoadedFrom.header, 12) - 1) :
          /\ LoadedFrom.slots[k].free_page_count > 0
          /\ CanRead(disk, LoadedFrom.slots[k].page_id)
          /\ Cardinality(ClearIndices(read_page(disk, LoadedFrom.slots[k].page_id).body)) > 1

\* The persisted index page the last load was given names two bitmaps, so
\* that RejectTwoBitmaps rejects every page id of the bitmaps it names.
LoadedTwoBitmaps == get_u16(LoadedFrom.header, 12) = 2

\* C23: a load with a filter that rejects every page id of the bitmaps the
\* persisted index page names, and accepts page ids beyond them, succeeds by
\* growing: current_bitmap_count goes from 2 to 3, current_bitmap_idx is the
\* new slot 2, first_free_bitmap_idx stays what it was (0 for an index
\* persisted right after grow) and the dirty map holds exactly two bitmaps.
C23_LoadGrows ==
    (ilast.op = "load" /\ ilast.f = RejectTwoBitmaps /\ LoadedTwoBitmaps) =>
        /\ ilast.ok
        /\ ~ix.panic
        /\ ix.current_bitmap_count = 3
        /\ ix.current_bitmap_idx = 2
        /\ ix.first_free_bitmap_idx = get_u16(LoadedFrom.header, 14)
        /\ (ilast.used = {} /\ icalls.load = 1) => ix.first_free_bitmap_idx = 0
        /\ Cardinality(DOMAIN ix.dirty) = 2

\* C24: a free(p) that follows at once the allocate that returned p returns
\* Some(true), clears the bit of p in the bitmap covering it and puts the
\* free_page_count of that bitmap, and the count recorded in its slot, back to
\* what they were before the allocate.
C24_FreeUndoesAllocate ==
    [][(/\ ilast.op = "allocate"
        /\ ilast.ret # None
        /\ ilast'.op = "free"
        /\ ilast'.arg = ilast.ret
        /\ icalls'.free = icalls.free + 1)
        => /\ ilast'.ok
           /\ ~ix'.panic
           /\ \E k \in DOMAIN ix.dirty :
                 /\ ilast.ret \in ManagedRange(ix.dirty[k])
                 /\ k \in DOMAIN ix'.dirty
                 /\ ix'.dirty[k].first_managed_page_id = ix.dirty[k].first_managed_page_id
                 /\ IsClear(ix'.dirty[k].bitmap, ilast.ret - ix.dirty[k].first_managed_page_id)
                 /\ ix'.dirty[k].free_page_count = ix.dirty[k].free_page_count + 1
                 /\ ix'.slots[k].free_page_count = ix'.dirty[k].free_page_count]_vars

\* The slot free computes for the page id p.
SlotOf(p) == (p - ix.first_managed_page_id) \div BITMAP_PAGE_COUNT

\* C25: free(p) of a page whose slot is not in the dirty map returns
\* Some(true) and leaves the bitmap of that slot in the dirty map, loaded at a
\* page id that was free, with the bit of p clear and with its page id and
\* free_page_count recorded in the entry of the slot; and after growing from
\* a full first bitmap first_free_bitmap_idx is 1.
C25_FreeCold ==
    [][/\ (ilast.op = "grow" /\ first_bitmap.free_page_count = 0)
             => ix.first_free_bitmap_idx = 1
       /\ (/\ ilast'.op = "free"
           /\ icalls'.free = icalls.free + 1
           /\ ilast'.arg >= ix.first_managed_page_id
           /\ SlotOf(ilast'.arg) \notin DOMAIN ix.dirty)
             => /\ ilast'.ok
                /\ ~ix'.panic
                /\ SlotOf(ilast'.arg) \in DOMAIN ix'.dirty
                /\ LET b == ix'.dirty[SlotOf(ilast'.arg)]
                   IN  /\ b.page_id \notin DirtyPageIds \cup {ix.page_id} \cup used
                       /\ ilast'.arg \in ManagedRange(b)
                       /\ IsClear(b.bitmap, ilast'.arg - b.first_managed_page_id)
                       /\ ix'.slots[SlotOf(ilast'.arg)] =
                             [page_id |-> b.page_id,
                              free_page_count |-> b.free_page_count]]_vars

\* The first bitmap was full at grow and the allocates since have taken every
\* page of the second bitmap.
TwoFullBitmaps ==
    /\ first_bitmap.free_page_count = 0
    /\ ix.current_bitmap_count = 2
    /\ icalls.load = 0
    /\ icalls.free = 0
    /\ DOMAIN ix.dirty = {1}
    /\ ix.dirty[1].free_page_count = 0

\* A page of the second bitmap has just been freed, after both bitmaps had
\* been full.
FreedFromTwoFull ==
    /\ first_bitmap.free_page_count = 0
    /\ ix.current_bitmap_count = 2
    /\ icalls.load = 0
    /\ ilast.op = "free"
    /\ ilast.arg \in ilast.used
    /\ Cardinality(ilast.used) = BITMAP_PAGE_COUNT - 2

\* C26: with slot 0 full and slot 1 allocated until it is full too,
\* first_free_bitmap_idx is 2 and current_bitmap_idx is 1; a free of a page
\* of slot 1 then returns Some(true), lowers first_free_bitmap_idx to 1 and
\* leaves current_bitmap_idx at 1; and the allocate after it returns another
\* page id than the one freed and leaves current_bitmap_idx at 2.
C26_TwoFullBitmaps ==
    [][/\ TwoFullBitmaps => (ix.first_free_bitmap_idx = 2 /\ ix.current_bitmap_idx = 1)
       /\ (TwoFullBitmaps /\ ilast'.op = "free" /\ ilast'.arg \in used)
             => /\ ilast'.ok
                /\ ix'.first_free_bitmap_idx = 1
                /\ ix'.current_bitmap_idx = 1
       /\ (FreedFromTwoFull /\ ilast'.op = "allocate" /\ ilast'.f = Unfiltered)
             => /\ ilast'.ret # None
                /\ ilast'.ret # ilast.arg
                /\ ix'.current_bitmap_idx = 2]_vars

\* C27: allocate and free of the IndexPage never abort the program: when no
\* page is left, or a page of the store cannot be read, they return None.
C27_NoAbort ==
    ilast.op \in {"allocate", "free"} => ~ix.panic

StoreWrites == {"write_page", "write_page_range"}

\* The last call on the store left the file and current_size as they were.
StoreUnchanged == file = slast.file /\ current_size = slast.current_size

Rejected == slast.res = "InvalidInput" /\ StoreUnchanged

\* C28: the store rejects with InvalidInput, changing neither current_size
\* nor a byte of the file: write_page with a buffer whose length is not the
\* page size; write_page_range with offset + len beyond the page size; a
\* write to a page id with (id + 1) * P above max_size; and read_page(id) when
\* (id + 1) * P is above current_size.
C28_StoreRejects ==
    /\ (slast.op = "write_page" /\ Len(slast.buf) # PAGE_SIZE) => Rejected
    /\ (slast.op = "write_page_range" /\ slast.offset + Len(slast.buf) > PAGE_SIZE)
          => Rejected
    /\ (slast.op \in StoreWrites /\ (slast.id + 1) * PAGE_SIZE > max_size) => Rejected
    /\ (slast.op = "read_page" /\ (slast.id + 1) * PAGE_SIZE > slast.current_size)
          => Rejected

\* A write of a buffer that fits its page, to the page after the last one
\* max_size has room for, was rejected on a file that has pages.
C28_Witness ==
    /\ slast.op = "write_page_range"
    /\ slast.id = StoreMaxPages
    /\ slast.offset + Len(slast.buf) <= PAGE_SIZE
    /\ Len(slast.buf) > 0
    /\ slast.res = "InvalidInput"
    /\ current_size > 0
    /\ StoreUnchanged

\* A read of a page max_size has room for, beyond current_size, was rejected.
C28_WitnessRead ==
    /\ slast.op = "read_page"
    /\ (slast.id + 1) * PAGE_SIZE <= max_size
    /\ (slast.id + 1) * PAGE_SIZE > current_size
    /\ current_size > 0
    /\ slast.res = "InvalidInput"

\* A write_page of a buffer one byte short was rejected.
C28_WitnessShort ==
    /\ slast.op = "write_page"
    /\ Len(slast.buf) = PAGE_SIZE - 1
    /\ (slast.id + 1) * PAGE_SIZE <= max_size
    /\ slast.res = "InvalidInput"

SetMax(S) == CHOOSE x \in S : \A y \in S : y <= x

\* C29: after a successful write_page or write_page_range to the page id,
\* current_size is the larger of what it was and (id + 1) * P; over any calls
\* current_size never gets smaller, stays a multiple of P and stays at or
\* below max_size, so that writing page 1 and then page 0 leaves it at 2 * P.
C29_CurrentSize ==
    /\ (slast.op \in StoreWrites /\ slast.res = "Ok")
          => current_size = SetMax({slast.current_size, (slast.id + 1) * PAGE_SIZE})
    /\ current_size >= slast.current_size
    /\ current_size % PAGE_SIZE = 0
    /\ current_size <= max_size

\* The bytes of the file the last write was to put its buffer at.
WrittenBytes ==
    {j \in 1..Len(file) :
        /\ j - 1 >= slast.id * PAGE_SIZE + slast.offset
        /\ j - 1 < slast.id * PAGE_SIZE + slast.offset + Len(slast.buf)}

\* C30: after a successful write_page_range(id, off, buf) or
\* write_page(id, buf), read_page(id) succeeds and gives buf at off..off+len
\* of its content; the bytes of pages the write brought into existence and
\* did not write are 0; every other byte of the file is what it was; and a
\* read_page gives the bytes of the file.
C30_ReadBack ==
    /\ (slast.op \in StoreWrites /\ slast.res = "Ok") =>
          /\ \E r \in {PageStore_read_page(StoreState, slast.id, checked)} :
                /\ r.res = "Ok"
                /\ Len(r.content) = PAGE_SIZE
                /\ \A i \in 1..Len(slast.buf) : r.content[slast.offset + i] = slast.buf[i]
          /\ \A j \in (1..Len(file)) \ WrittenBytes :
                file[j] = IF j <= Len(slast.file) THEN slast.file[j] ELSE 0
    /\ (slast.op = "read_page" /\ slast.res = "Ok") =>
          slast.content = SubSeq(file, slast.id * PAGE_SIZE + 1,
                                 (slast.id + 1) * PAGE_SIZE)

\* A write in the middle of a page, two pages beyond the end of a file that
\* had written bytes, has succeeded: the page between came into existence
\* unwritten.
C30_Witness ==
    /\ slast.op = "write_page_range"
    /\ slast.res = "Ok"
    /\ slast.offset > 0
    /\ Len(slast.buf) > 0
    /\ current_size >= slast.current_size + 2 * PAGE_SIZE
    /\ \E j \in 1..Len(slast.file) : slast.file[j] # 0
    /\ \A j \in WrittenBytes : file[j] = slast.buf[j - slast.id * PAGE_SIZE - slast.offset]

\* A read_page has given a page with written bytes and bytes never written.
C30_WitnessRead ==
    /\ slast.op = "read_page"
    /\ slast.res = "Ok"
    /\ \E i \in 1..RangeBufLen : slast.content[i] # 0
    /\ slast.content[PAGE_SIZE] = 0

\* The dirty bitmaps whose page the store has no room for.
RefusedBitmaps == {k \in DOMAIN ix.dirty : ~HasRoom(max_pages, ix.dirty[k].page_id)}

\* The page the IndexPage in memory persists to.
IndexImage == [header |-> index_update_header(ix), slots |-> ix.slots]

\* C31: IndexPage::persist writes every dirty bitmap before it writes the
\* index page: when the store takes every bitmap, each of them is in the
\* store whether or not the write of the index page then succeeds, and a
\* successful persist leaves the index page in the store; when the store
\* refuses the write of a bitmap, persist returns the error and the page of
\* the IndexPage is not written.
C31_PersistOrder ==
    [][(ilast'.op = "persist" /\ icalls'.persist = icalls.persist + 1)
        => /\ ilast'.ok <=> (RefusedBitmaps = {} /\ HasRoom(max_pages, ix.page_id))
           /\ RefusedBitmaps = {} =>
                 \A k \in DOMAIN ix.dirty :
                     /\ CanRead(disk', ix.dirty[k].page_id)
                     /\ \E k2 \in DOMAIN ix.dirty :
                           CarriesBitmap(read_page(disk', ix.dirty[k].page_id),
                                         ix.dirty[k2])
           /\ ilast'.ok =>
                 /\ CanRead(disk', ix.page_id)
                 /\ read_page(disk', ix.page_id) = IndexImage
           /\ RefusedBitmaps # {} =>
                 \/ ~CanRead(disk', ix.page_id)
                 \/ IsBitmapShaped(read_page(disk', ix.page_id))
                 \/ /\ CanRead(disk, ix.page_id)
                    /\ read_page(disk', ix.page_id) = read_page(disk, ix.page_id)]_vars

\* A persist has failed at the second of two dirty bitmaps: the first is in
\* the store, the second and the index page are not.
C31_Witness ==
    /\ ilast.op = "persist"
    /\ ~ilast.ok
    /\ HasRoom(max_pages, ix.page_id)
    /\ RefusedBitmaps # {}
    /\ \E k \in DOMAIN ix.dirty :
          /\ CanRead(disk, ix.dirty[k].page_id)
          /\ CarriesBitmap(read_page(disk, ix.dirty[k].page_id), ix.dirty[k])
    /\ \/ ~CanRead(disk, ix.page_id)
       \/ read_page(disk, ix.page_id) # IndexImage

\* A persist has failed at the index page, after it had written its bitmaps.
C31_WitnessIndexRefused ==
    /\ ilast.op = "persist"
    /\ ~ilast.ok
    /\ RefusedBitmaps = {}
    /\ ~HasRoom(max_pages, ix.page_id)
    /\ DOMAIN ix.dirty # {}
    /\ \A k \in DOMAIN ix.dirty :
          /\ CanRead(disk, ix.dirty[k].page_id)
          /\ CarriesBitmap(read_page(disk, ix.dirty[k].page_id), ix.dirty[k])

\* The index page the last persist wrote.
PersistedIndex == read_page(disk, ix.page_id)

\* The page at the page id `id` is a Bitmap page that carries its own id,
\* the first managed page id `first` and the free page count `count`.
IsBitmapSnapshot(id, first, count) ==
    /\ CanRead(disk, id)
    /\ IsBitmapShaped(read_page(disk, id))
    /\ get_u32(read_page(disk, id).header, 4) = PageTypeBitmap
    /\ get_u32(read_page(disk, id).header, 0) = id
    /\ get_u32(read_page(disk, id).header, 8) = first
    /\ get_u16(read_page(disk, id).header, 12) = count

\* C32: after a successful IndexPage::persist, for every slot k below the
\* current_bitmap_count of the written index page, the page at the page id
\* the slot records is a Bitmap page (type 1) that carries that page id at
\* offset 0, first_managed_page_id + k*B as its first managed page id and the
\* free_page_count the slot records.
C32_SnapshotConsistent ==
    (ilast.op = "persist" /\ ilast.ok) =>
        \A k \in 0..(get_u16(PersistedIndex.header, 12) - 1) :
            IsBitmapSnapshot(PersistedIndex.slots[k].page_id,
                             get_u32(PersistedIndex.header, 8) + k * BITMAP_PAGE_COUNT,
                             PersistedIndex.slots[k].free_page_count)

\* The last step was a call of allocate or free that has returned.
AllocateOrFreeStep ==
    /\ ilast'.op \in {"allocate", "free"}
    /\ icalls' # icalls
    /\ ~ix'.panic

\* C33: a slot that is in the dirty map stays authoritative: an allocate or a
\* free, with the activate_next_bitmap and grow_next_bitmap steps inside it,
\* leaves every key of the dirty map in the map with the BitmapPage it held
\* (the same page_id and first_managed_page_id, not a copy loaded from the
\* store at another page); the keys it adds below the old
\* current_bitmap_count were cold, and those at or above it are the slots
\* grow_next_bitmap has added to the count.
C33_DirtyStaysAuthoritative ==
    [][AllocateOrFreeStep
        => /\ \A k \in DOMAIN ix.dirty :
                 /\ k \in DOMAIN ix'.dirty
                 /\ ix'.dirty[k].page_id = ix.dirty[k].page_id
                 /\ ix'.dirty[k].first_managed_page_id
                       = ix.dirty[k].first_managed_page_id
           /\ \A k \in (DOMAIN ix'.dirty) \ (DOMAIN ix.dirty) :
                 k >= ix.current_bitmap_count => k < ix'.current_bitmap_count]_vars

\* The IndexPage that IndexPage::load builds from the page it was given last,
\* as it is when load calls activate_next_bitmap.
LoadStart ==
    [page_id               |-> None,
     first_managed_page_id |-> get_u32(LoadedFrom.header, 8),
     current_bitmap_count  |-> get_u16(LoadedFrom.header, 12),
     current_bitmap_idx    |-> get_u16(LoadedFrom.header, 14),
     first_free_bitmap_idx |-> get_u16(LoadedFrom.header, 14),
     dirty                 |-> << >>,
     slots                 |-> LoadedFrom.slots,
     panic                 |-> FALSE]

\* The page the entry of slot k names holds a bitmap that BitmapPage::load
\* accepts under the filter f.
LoadableUnder(k, f) ==
    /\ CanRead(disk, LoadStart.slots[k].page_id)
    /\ IsBitmapShaped(read_page(disk, LoadStart.slots[k].page_id))
    /\ load(read_page(disk, LoadStart.slots[k].page_id), f).some

\* The slots activate_next_bitmap(start, f) is to examine that are loadable.
LoadableFrom(start, f) ==
    {k \in start..(LoadStart.current_bitmap_count - 1) : LoadableUnder(k, f)}

\* C34: activate_next_bitmap(start, f), as IndexPage::load calls it, activates
\* the first slot k of start .. current_bitmap_count - 1 whose own recorded
\* page holds a bitmap loadable under f: it returns true, the dirty map has a
\* bitmap with first_managed_page_id = first_managed_page_id + k*B at key k,
\* current_bitmap_idx is k and current_bitmap_count is unchanged; it grows a
\* new bitmap only when none of these slots is loadable.
C34_ActivateFirstLoadable ==
    ilast.op = "load" =>
        \A r \in {activate_next_bitmap(LoadStart, disk,
                                       LoadStart.first_free_bitmap_idx, ilast.f)} :
            LET c == LoadableFrom(LoadStart.first_free_bitmap_idx, ilast.f)
            IN  IF c # {}
                THEN /\ r.ret
                     /\ ~r.ix.panic
                     /\ r.ix.current_bitmap_idx = SetMin(c)
                     /\ SetMin(c) \in DOMAIN r.ix.dirty
                     /\ r.ix.dirty[SetMin(c)].first_managed_page_id
                           = LoadStart.first_managed_page_id
                                 + SetMin(c) * BITMAP_PAGE_COUNT
                     /\ r.ix.current_bitmap_count = LoadStart.current_bitmap_count
                ELSE r.ret =>
                        r.ix.current_bitmap_count = LoadStart.current_bitmap_count + 1

\* The page the entry of slot k of the IndexPage in memory names holds a
\* bitmap that BitmapPage::load accepts under the filter f.
SlotLoadable(k, f) ==
    /\ CanRead(disk, ix.slots[k].page_id)
    /\ IsBitmapShaped(read_page(disk, ix.slots[k].page_id))
    /\ load(read_page(disk, ix.slots[k].page_id), f).some

\* Under the filter f the current bitmap has no page to give and no slot
\* after it holds a loadable bitmap.
Exhausted(f) ==
    /\ ix.current_bitmap_idx \in DOMAIN ix.dirty
    /\ allocate(ix.dirty[ix.current_bitmap_idx], f).ret = None
    /\ \A k \in (ix.current_bitmap_idx + 1)..(ix.current_bitmap_count - 1) :
          ~SlotLoadable(k, f)

StrictlyIncreasing(seq) == \A i \in 1..(Len(seq) - 1) : seq[i] < seq[i + 1]

\* C35: current_bitmap_count never exceeds the number of slots of the index
\* page; the rounds of the loop of IndexPage::allocate start with strictly
\* increasing values of current_bitmap_idx, all below the number of slots, so
\* the loop ends; and allocate returns None when, under its filter, no slot
\* from current_bitmap_idx on yields a page and current_bitmap_count has
\* reached the number of slots.
C35_AllocateTerminates ==
    [][/\ ix.current_bitmap_count <= IndexSlots
       /\ ix'.current_bitmap_count <= IndexSlots
       /\ (ilast'.op = "allocate" /\ icalls'.allocate = icalls.allocate + 1) =>
             \A r \in {index_allocate(ix, disk, ilast'.f)} :
                 /\ Len(r.rounds) >= 1
                 /\ r.rounds[1] = ix.current_bitmap_idx
                 /\ StrictlyIncreasing(r.rounds)
                 /\ r.rounds[Len(r.rounds)] < IndexSlots
                 /\ (Exhausted(ilast'.f) /\ ix.current_bitmap_count = IndexSlots)
                       => (ilast'.ret = None /\ ~ix'.panic)]_vars

\* The one allocate since grow, with the filter that rejects every page id,
\* has gone through the second bitmap and the bitmaps it grew, and has
\* returned None with every slot in use.
C35_Witness ==
    /\ ilast.op = "allocate"
    /\ ilast.f = RejectAll
    /\ ilast.ret = None
    /\ icalls.allocate = 1
    /\ icalls.load = 0
    /\ ix.current_bitmap_count = IndexSlots
    /\ ix.current_bitmap_idx = IndexSlots - 1
    /\ DOMAIN ix.dirty = 1..(IndexSlots - 1)
    /\ ~ix.panic

\* After a load, an allocate with the filter that rejects every page id has
\* returned None with the slots after the current one examined in the store.
C35_WitnessLoaded ==
    /\ ilast.op = "allocate"
    /\ ilast.f = RejectAll
    /\ ilast.ret = None
    /\ icalls.load > 0
    /\ ix.current_bitmap_count = IndexSlots
    /\ ix.current_bitmap_idx < IndexSlots - 1
    /\ ~ix.panic

\* The page id of the view the last load_into was given lies in the range
\* the bitmap of the view manages.
ViewIdManaged == ViewPageId \in ViewFirst..(ViewFirst + BITMAP_PAGE_COUNT - 1)

\* The bit of that page id was set in the view.
ViewIdWasSet == ViewIdManaged /\ ~IsClear(last.view.body, ViewPageId - ViewFirst)

\* C36: load_into(view, t) gives a bitmap with page_id = t and the
\* first_managed_page_id of the view; it sets no bit, not that of t either;
\* it clears the bit of the page id of the view when that id is in the
\* managed range, adding one to free_page_count if the bit was set and
\* lowering first_free_page_idx to its index if that is smaller; every other
\* bit is as in the view; and current_first_free_page_idx is the persisted
\* first_free_page_idx.
C36_LoadInto ==
    last.op = "load_into" =>
        /\ last.ok
        /\ ~panicked
        /\ bm.page_id = last.arg
        /\ bm.first_managed_page_id = ViewFirst
        /\ ClearIndices(bm.bitmap) =
              ClearIndices(last.view.body)
                  \cup (IF ViewIdManaged THEN {ViewPageId - ViewFirst} ELSE {})
        /\ bm.free_page_count = ViewCount + (IF ViewIdWasSet THEN 1 ELSE 0)
        /\ bm.first_free_page_idx =
              (IF ViewIdManaged /\ ViewPageId - ViewFirst < ViewFloor
               THEN ViewPageId - ViewFirst ELSE ViewFloor)
        /\ bm.current_first_free_page_idx = ViewFloor

\* A load_into to the page the view came from: the bit of that page was set
\* and below the persisted first_free_page_idx, and is clear now.
C36_Witness ==
    /\ last.op = "load_into"
    /\ last.arg = ViewPageId
    /\ ViewIdWasSet
    /\ ViewPageId - ViewFirst < ViewFloor
    /\ Cardinality(ClearIndices(last.view.body)) < BITMAP_PAGE_COUNT - 1
    /\ IsClear(bm.bitmap, ViewPageId - ViewFirst)
    /\ bm.first_free_page_idx = ViewPageId - ViewFirst
    /\ bm.current_first_free_page_idx > bm.first_free_page_idx

\* A load_into of a view whose page id is outside the managed range.
C36_WitnessOutside ==
    /\ last.op = "load_into"
    /\ ~ViewIdManaged
    /\ bm.bitmap = last.view.body
    /\ bm.free_page_count = ViewCount

\* C37: an allocate that returns None leaves the cursor at 0xFFFF; while the
\* program goes on with the same BitmapPage, allocating and freeing, the
\* cursor stays at 0xFFFF and every allocate returns None, whatever its
\* filter and whatever pages have been freed since.
C37_NoneStaysNone ==
    [][/\ (last'.op = "allocate" /\ last'.ret = None)
             => bm'.current_first_free_page_idx = NO_IDX
       /\ (/\ live
           /\ bm.current_first_free_page_idx = NO_IDX
           /\ last'.op \in {"allocate", "free"}
           /\ ~panicked')
             => /\ bm'.current_first_free_page_idx = NO_IDX
                /\ last'.op = "allocate" => last'.ret = None]_vars

\* An allocate with the filter that accepts every page id has returned None
\* on a bitmap with free pages: an earlier allocate had returned None, and a
\* page has been freed since.
C37_Witness ==
    /\ last.op = "allocate"
    /\ last.f = Unfiltered
    /\ last.ret = None
    /\ last.pre.current_first_free_page_idx = NO_IDX
    /\ last.prev_alloc # None
    /\ last.prev_alloc - bm.first_managed_page_id \in ClearIndices(bm.bitmap)
    /\ bm.free_page_count > 0

\* C38: after grow, load, allocate and free, for each slot k in the dirty map
\* the entry of slot k in the buffer of the IndexPage is (page_id,
\* free_page_count) of the BitmapPage the map holds for k.
C38_SlotEntriesMatchDirty ==
    ~ix.panic =>
        \A k \in DOMAIN ix.dirty :
            /\ k \in DOMAIN ix.slots
            /\ ix.slots[k] = [page_id         |-> ix.dirty[k].page_id,
                              free_page_count |-> ix.dirty[k].free_page_count]

\* The bits and the free page counts of the bitmaps of the dirty map d.
BitsOf(d) ==
    [k \in DOMAIN d |-> [bitmap |-> d[k].bitmap,
                         free_page_count |-> d[k].free_page_count]]

\* C39: a free that returns None leaves the allocator as it was: the keys of
\* the dirty map, the bits and the free_page_count of every bitmap in it, the
\* slot entries, current_bitmap_count and current_bitmap_idx are what they
\* were before the call.
C39_FailedFreeChangesNothing ==
    [][(/\ ilast'.op = "free"
        /\ icalls'.free = icalls.free + 1
        /\ ilast'.ret = None
        /\ ~ix'.panic)
        => /\ BitsOf(ix'.dirty) = BitsOf(ix.dirty)
           /\ ix'.slots = ix.slots
           /\ ix'.current_bitmap_count = ix.current_bitmap_count
           /\ ix'.current_bitmap_idx = ix.current_bitmap_idx]_vars

\* No slot of the IndexPage covers the page id p.
Uncovered(p) ==
    \/ p < ix.first_managed_page_id
    \/ SlotOf(p) >= ix.current_bitmap_count

\* C40: free(p) of a page id no slot covers (p below first_managed_page_id,
\* or in a slot at or after current_bitmap_count) changes no bit of a bitmap,
\* allocates no page, and adds no entry to the dirty map or to the slot
\* table.
C40_FreeUncovered ==
    [][(/\ ilast'.op = "free"
        /\ icalls'.free = icalls.free + 1
        /\ Uncovered(ilast'.arg)
        /\ ~ix'.panic)
        => /\ BitsOf(ix'.dirty) = BitsOf(ix.dirty)
           /\ ix'.slots = ix.slots]_vars

====
